---- MODULE Spec2Model ----
(***************************************************************************)
(* Session workflow engine of futig/agent-api (internal/usecase/session,   *)
(* internal/repository, internal/telegram/handlers).                       *)
(*                                                                         *)
(* One session row, its iterations/questions and its draft messages are    *)
(* the persistent state.  Spec runs every use-case operation as one        *)
(* atomic step (one request at a time); SpecConc runs two request tasks    *)
(* whose database statements and gateway calls interleave.                 *)
(*                                                                         *)
(* Assumption: the database itself does not fail (no I/O errors); the      *)
(* errors modelled are the ones the code produces deterministically        *)
(* (status guards, missing rows, unique-constraint violations, empty       *)
(* lists) and the failures of the LLM / RAG gateways.                      *)
(***************************************************************************)
EXTENDS Integers, Sequences, FiniteSets, TLC

(***************************************************************************)
(* Bounds                                                                  *)
(***************************************************************************)
\* blocks in one GenerateQuestions response
MaxBlocks == 1
\* questions in one gateway response (a block may also come back empty)
MaxQuestions == 1
\* iterations a session may hold (caps the concurrent specification)
MaxIterations == 3
\* draft messages a session may hold in the model
MaxMessages == 2

(***************************************************************************)
(* entity.SessionStatus, entity.SessionType, entity.QuestionStatus         *)
(***************************************************************************)
SessionStatusNew == "NEW"
SessionStatusAskUserGoal == "ASK_USER_GOAL"
SessionStatusSelectOrCreateProject == "SELECT_OR_CREATE_PROJECT"
SessionStatusAskUserContext == "ASK_USER_CONTEXT"
SessionStatusChooseMode == "CHOOSE_MODE"
SessionStatusInterviewInfo == "INTERVIEW_INFO"
SessionStatusDraftInfo == "DRAFT_INFO"
SessionStatusGeneratingQuestions == "GENERATING_QUESTIONS"
SessionStatusWaitingForAnswers == "WAITING_FOR_ANSWERS"
SessionStatusDraftCollecting == "DRAFT_COLLECTING"
SessionStatusValidating == "VALIDATING"
SessionStatusGeneratingRequirements == "GENERATING_REQUIREMENTS"
SessionStatusDone == "DONE"
SessionStatusError == "ERROR"
SessionStatusCanceled == "CANCELED"
SessionStatusAskProjectName == "ASK_PROJECT_NAME"
SessionStatusAskProjectDescription == "ASK_PROJECT_DESCRIPTION"

\* status of the session slot before any session row has been inserted
NoSession == "NO_SESSION"

SessionStatuses ==
    { SessionStatusNew, SessionStatusAskUserGoal, SessionStatusSelectOrCreateProject,
      SessionStatusAskUserContext, SessionStatusChooseMode, SessionStatusInterviewInfo,
      SessionStatusDraftInfo, SessionStatusGeneratingQuestions,
      SessionStatusWaitingForAnswers, SessionStatusDraftCollecting,
      SessionStatusValidating, SessionStatusGeneratingRequirements,
      SessionStatusDone, SessionStatusError, SessionStatusCanceled,
      SessionStatusAskProjectName, SessionStatusAskProjectDescription }

SessionTypeDraft == "DRAFT"
SessionTypeInterview == "INTERVIEW"
SessionTypes == { SessionTypeDraft, SessionTypeInterview }

AnswerStatusUnanswered == "UNANSWERED"
AnswerStatusSkiped == "SKIPED"
AnswerStatusAnswered == "ANSWERED"

\* title ValidateAnswers / ValidateDraftMessages give the follow-up block
\* ("Дополнительные вопросы" in the source, transliterated)
AdditionalTitle == "Dopolnitelnye voprosy"
\* title of a block that came from GenerateQuestions
GeneratedTitle == "Blok"

\* NULL of a nullable text column / nil of a *string
Null == ""

\* texts the gateways and the user can supply
Goals == { "", "goal" }
RagContexts == { "", "rag context" }
ManualContext == "manual context"
Summaries == { "summary 1", "summary 2" }
AnswerTexts == { "answer" }
ProjectID == "project"

\* error values of the use-case layer
Ok == "ok"
ErrWrongStatus == "wrong action on status"
ErrGateway == "gateway failure"
ErrPrecondition == "precondition failed"
ErrInternal == "internal error"
Errors == { ErrWrongStatus, ErrGateway, ErrPrecondition, ErrInternal }

\* id of a question: <<iteration number, question number>>; NoQuestion is an
\* id no row carries
NoQuestion == <<0, 0>>

VARIABLES
    session,         \* the row of table sessions
    iterations,      \* rows of session_iterations with their iteration_questions, in creation order
    sessionMessages, \* number of rows of session_messages of the session
    tgLinked,        \* a telegram_sessions row references the session
    draftMessageCount, \* StateData.DraftMessageCount of that row
    stateData,       \* StateData of that row: the navigation state of the chat
    now,             \* the wall clock, in minutes
    nav,             \* the chat handler executed last and its outcome
    callbacks,       \* the callback queries in progress, each with the StateData it loaded
    limits,          \* RateLimiterMiddleware.limits and the userLimit entries it points to
    updates,         \* the chat updates inside RateLimiterMiddleware.Handle
    events,          \* the notification events emitted, the sink and the error log
    otherQuestion,   \* a row of iteration_questions that belongs to another session
    last,            \* the operation executed last and its outcome
    tasks            \* request tasks of the concurrent specification

vars == <<session, iterations, sessionMessages, tgLinked, draftMessageCount, stateData, now, nav,
          callbacks, limits, updates, events, otherQuestion, last, tasks>>

\* the variables only the chat front-end's navigation, its rate limiter and the
\* notification emitter write, and the row of the other session
chatVars == <<stateData, now, nav, callbacks, limits, updates, events, otherQuestion>>


(***************************************************************************)
(* The database as the repositories see it.  A value db is the content of  *)
(* the three tables plus writes, the statuses written to sessions.status   *)
(* so far by the running operation (instrumentation, not program state).   *)
(***************************************************************************)
DB == [ session |-> session, iterations |-> iterations,
        sessionMessages |-> sessionMessages, writes |-> <<>> ]

\* INSERT of CreateSession: every other column takes its default
CreateSession(db, status) ==
    [db EXCEPT !.session =
        [ status |-> status, type |-> Null, userGoal |-> Null,
          projectContext |-> Null, projectID |-> Null,
          currentIteration |-> 1, result |-> Null ]]

CreateFilledSession(db, status, type, userGoal, projectContext, projectID) ==
    [db EXCEPT !.session =
        [ status |-> status, type |-> type, userGoal |-> userGoal,
          projectContext |-> projectContext, projectID |-> projectID,
          currentIteration |-> 1, result |-> Null ]]

\* a status update that also writes a NULL result
UpdateSessionStatusClearingResult(db, status) ==
    [db EXCEPT !.session.status = status, !.session.result = Null,
               !.writes = Append(@, status)]

\* UPDATE sessions SET status = $2 WHERE id = $1
UpdateSessionStatus(db, status) ==
    [db EXCEPT !.session.status = status, !.writes = Append(@, status)]

\* UPDATE sessions SET status = $2, result = $3, error = $4 WHERE id = $1
\* (every caller passes a nil error; a nil result is stored as NULL)
UpdateSessionResult(db, status, result) ==
    [db EXCEPT !.session.status = status, !.session.result = result,
               !.writes = Append(@, status)]

UpdateSessionUserGoal(db, userGoal) ==
    [db EXCEPT !.session.userGoal = userGoal]

\* sets project_context and clears project_id
UpdateSessionProjectContext(db, projectCtx) ==
    [db EXCEPT !.session.projectContext = projectCtx, !.session.projectID = Null]

\* an empty projectCtx is stored as NULL (Valid: projectCtx != "")
UpdateSessionRAGProjectContext(db, projectID, projectCtx) ==
    [db EXCEPT !.session.projectContext = projectCtx, !.session.projectID = projectID]

UpdateSessionType(db, sessionType) ==
    [db EXCEPT !.session.type = sessionType]

\* UPDATE sessions SET current_iteration = current_iteration + 1
UpdateSessionIteration(db) ==
    [db EXCEPT !.session.currentIteration = @ + 1]

\* positions in the table of the iterations numbered n (at most one: the
\* unique constraint unique_session_iteration)
IterationIndexes(its, n) == { i \in DOMAIN its : its[i].number = n }

HasIteration(its, n) == IterationIndexes(its, n) # {}

IterationByNumber(its, n) == its[CHOOSE i \in IterationIndexes(its, n) : TRUE]

\* SELECT ... WHERE si.iteration_number = ss.current_iteration
GetCurrentIteration(db) == db.session.currentIteration

\* SELECT ... WHERE si.iteration_number = ss.current_iteration + 1
GetNextIteration(db) == db.session.currentIteration + 1

\* SELECT COALESCE(MAX(iteration_number), 0)
GetMaxIterationNumber(its) ==
    IF its = <<>> THEN 0
    ELSE CHOOSE m \in { its[i].number : i \in DOMAIN its } :
            \A i \in DOMAIN its : its[i].number <= m

\* ids of the questions of the session, ORDER BY iteration_number, question_number
QuestionIDs(its) ==
    UNION { { <<its[i].number, k>> : k \in DOMAIN its[i].questions } : i \in DOMAIN its }

QuestionByID(its, id) == IterationByNumber(its, id[1]).questions[id[2]]

\* the same table with the question row of id replaced by q
ReplaceQuestion(its, id, q) ==
    [ i \in DOMAIN its |->
        IF its[i].number = id[1]
        THEN [its[i] EXCEPT !.questions =
                [ k \in DOMAIN @ |-> IF k = id[2] THEN q ELSE @[k] ]]
        ELSE its[i] ]

\* UPDATE iteration_questions SET answer = $2, status = 'ANSWERED' WHERE id = $1
\* (no row, no error)
UpdateQuestionAnswer(db, questionID, answer) ==
    IF questionID \notin QuestionIDs(db.iterations) THEN db
    ELSE [db EXCEPT !.iterations =
            ReplaceQuestion(@, questionID,
                [QuestionByID(@, questionID) EXCEPT !.answer = answer,
                                                    !.status = AnswerStatusAnswered])]

\* the update without its status condition
SkipQuestionAnyStatus(db, questionID) ==
    IF questionID \notin QuestionIDs(db.iterations) THEN db
    ELSE [db EXCEPT !.iterations =
            ReplaceQuestion(@, questionID,
                [QuestionByID(@, questionID) EXCEPT !.status = AnswerStatusSkiped])]

\* UPDATE iteration_questions SET status = 'SKIPED' WHERE id = $1 AND status = 'UNANSWERED'
SkipQuestion(db, questionID) ==
    IF questionID \notin QuestionIDs(db.iterations) THEN db
    ELSE IF QuestionByID(db.iterations, questionID).status # AnswerStatusUnanswered THEN db
    ELSE [db EXCEPT !.iterations =
            ReplaceQuestion(@, questionID,
                [QuestionByID(@, questionID) EXCEPT !.status = AnswerStatusSkiped])]

\* ... AND (iq.status = 'UNANSWERED' OR iq.status = 'SKIPED')
GetUnansweredQuestions(db) ==
    { id \in QuestionIDs(db.iterations) :
        QuestionByID(db.iterations, id).status
            \in { AnswerStatusUnanswered, AnswerStatusSkiped } }

\* INSERT INTO session_iterations: fails on a duplicate iteration_number
CreateIterationFails(its, number) == HasIteration(its, number)

CreateIteration(db, number, title) ==
    [db EXCEPT !.iterations =
        Append(@, [number |-> number, title |-> title, questions |-> <<>>])]

\* INSERT INTO iteration_questions, question_number = Len + 1
CreateQuestion(db, number, status) ==
    LET Add(it) == IF it.number = number
                   THEN [it EXCEPT !.questions =
                            Append(@, [status |-> status, answer |-> Null])]
                   ELSE it
    IN  [db EXCEPT !.iterations = [ i \in DOMAIN @ |-> Add(@[i]) ]]

\* INSERT INTO session_messages
CreateMessage(db) == [db EXCEPT !.sessionMessages = @ + 1]


(***************************************************************************)
(* Answers of the collaborators: project repository, RAG and LLM gateways. *)
(***************************************************************************)
\* projectRepo.Get: no such project, a project with an empty description, a
\* project with a description
ProjectLookups == { "missing", "no description", "found" }

\* ragConnector.GetContext
RagResponses ==
    { [err |-> TRUE, text |-> Null] } \cup { [err |-> FALSE, text |-> c] : c \in RagContexts }

RECURSIVE TotalQuestions(_)
TotalQuestions(blocks) ==
    IF blocks = <<>> THEN 0 ELSE Head(blocks) + TotalQuestions(Tail(blocks))

\* llmConnector.GenerateQuestions: a failure, or the question counts of the
\* blocks returned (possibly no block at all)
QuestionBlocks ==
    { b \in UNION { [1..k -> 0..MaxQuestions] : k \in 0..MaxBlocks } :
        TotalQuestions(b) <= MaxQuestions }

GenerateQuestionsResponses ==
    { [err |-> TRUE, blocks |-> <<>>] } \cup { [err |-> FALSE, blocks |-> b] : b \in QuestionBlocks }

\* llmConnector.ValidateAnswers / ValidateDraft: a failure, or the number of
\* follow-up questions
ValidateResponses ==
    { [err |-> TRUE, questions |-> 0] } \cup { [err |-> FALSE, questions |-> n] : n \in 0..MaxQuestions }

\* llmConnector.GenerateSummary / GenerateDraftSummary: a failure (an empty
\* result is turned into a failure by the connector), or a non-empty text
SummaryResponses ==
    { [err |-> TRUE, text |-> Null] } \cup { [err |-> FALSE, text |-> t] : t \in Summaries }

(***************************************************************************)
(* Outcome of a use-case operation: the database it leaves, the error it   *)
(* returns (Ok for nil) and, where it returns an iteration, that           *)
(* iteration's number (0 for nil).                                         *)
(***************************************************************************)
ErrNotFound == "get session"

Fail(db, err) == [db |-> db, err |-> err, ret |-> 0]

Return(db, ret) == [db |-> db, err |-> Ok, ret |-> ret]

\* sessionRepo.GetSessionByID finds the row
GetSessionByID(db) == db.session.status # NoSession

(***************************************************************************)
(* usecase/session helpers                                                 *)
(***************************************************************************)
RECURSIVE createQuestions(_, _, _)
createQuestions(db, number, n) ==
    IF n = 0 THEN db
    ELSE CreateQuestion(createQuestions(db, number, n - 1), number, AnswerStatusUnanswered)

\* the loop of saveQuestionsToDatabase from block idx on; blocks[i] is the
\* number of questions of block i, titles[i] its title
RECURSIVE saveBlocks(_, _, _, _, _)
saveBlocks(db, maxIterationNumber, blocks, titles, idx) ==
    IF idx > Len(blocks) THEN Return(db, 0)
    ELSE LET iterationNumber == maxIterationNumber + idx
         IN  IF CreateIterationFails(db.iterations, iterationNumber)
             THEN Fail(db, ErrInternal)
             ELSE saveBlocks(
                    createQuestions(CreateIteration(db, iterationNumber, titles[idx]),
                                    iterationNumber, blocks[idx]),
                    maxIterationNumber, blocks, titles, idx + 1)

\* saveQuestionsToDatabase numbering from 1 whatever the session holds
saveQuestionsToDatabaseFromOne(db, blocks, titles) ==
    LET saved == saveBlocks(db, 0, blocks, titles, 1)
    IN  IF saved.err # Ok THEN saved
        ELSE Return(saved.db, IF Len(blocks) = 0 THEN 0 ELSE 1)

\* returns the number of the first saved iteration (0: nothing was saved)
saveQuestionsToDatabase(db, blocks, titles) ==
    LET maxIterationNumber == GetMaxIterationNumber(db.iterations)
        saved == saveBlocks(db, maxIterationNumber, blocks, titles, 1)
    IN  IF saved.err # Ok THEN saved
        ELSE Return(saved.db, IF Len(blocks) = 0 THEN 0 ELSE maxIterationNumber + 1)

generateQuestionsBlocks(llm) ==
    IF llm.err THEN ErrGateway
    ELSE IF Len(llm.blocks) = 0 THEN ErrInternal
    ELSE Ok

GeneratedTitles(blocks) == [ i \in DOMAIN blocks |-> GeneratedTitle ]

\* getCurrentIteration returning the next iteration without moving the pointer
getCurrentIterationWithoutAdvance(db) ==
    LET current == GetCurrentIteration(db)
        next == GetNextIteration(db)
    IN  IF ~HasIteration(db.iterations, current) THEN Fail(db, ErrInternal)
        ELSE LET curentQuestion == IterationByNumber(db.iterations, current).questions
             IN  IF Len(curentQuestion) = 0 THEN Fail(db, ErrInternal)
                 ELSE IF curentQuestion[Len(curentQuestion)].status = AnswerStatusUnanswered
                 THEN Return(db, current)
                 ELSE IF ~HasIteration(db.iterations, next) THEN Return(db, 0)
                 ELSE IF Len(IterationByNumber(db.iterations, next).questions) = 0
                 THEN Fail(db, ErrInternal)
                 ELSE Return(db, next)

getCurrentIteration(db) ==
    LET current == GetCurrentIteration(db)
        next == GetNextIteration(db)
    IN  IF ~HasIteration(db.iterations, current) THEN Fail(db, ErrInternal)
        ELSE LET curentQuestion == IterationByNumber(db.iterations, current).questions
             IN  IF Len(curentQuestion) = 0 THEN Fail(db, ErrInternal)
                 ELSE IF curentQuestion[Len(curentQuestion)].status = AnswerStatusUnanswered
                 THEN Return(db, current)
                 ELSE IF ~HasIteration(db.iterations, next) THEN Return(db, 0)
                 ELSE LET advanced == UpdateSessionIteration(db)
                      IN  IF Len(IterationByNumber(db.iterations, next).questions) = 0
                          THEN Fail(advanced, ErrInternal)
                          ELSE Return(advanced, next)

\* the loop over ListIterationsBySession in ValidateAnswers / ValidateDraftMessages
hasAdditionalBlock(its) ==
    \E i \in DOMAIN its : its[i].title = AdditionalTitle


(***************************************************************************)
(* Use-case operations (SessionUsecase), each from the database db it      *)
(* starts on to its outcome.                                               *)
(***************************************************************************)
StartSession(db) ==
    Return(CreateSession(db, SessionStatusAskUserGoal), 0)

SubmitTextUserGoal(db, goal) ==
    IF ~GetSessionByID(db) THEN Fail(db, ErrNotFound)
    ELSE IF db.session.status # SessionStatusAskUserGoal THEN Fail(db, ErrWrongStatus)
    ELSE Return(UpdateSessionStatus(UpdateSessionUserGoal(db, goal),
                                    SessionStatusSelectOrCreateProject), 0)

SubmitRAGProjectContext(db, project, rag) ==
    IF ~GetSessionByID(db) THEN Fail(db, ErrNotFound)
    ELSE IF db.session.status # SessionStatusSelectOrCreateProject THEN Fail(db, ErrWrongStatus)
    ELSE IF db.session.userGoal = Null THEN Fail(db, ErrPrecondition)
    ELSE IF project = "missing" THEN Fail(db, ErrInternal)
    ELSE IF rag.err THEN Fail(db, ErrGateway)
    ELSE Return(UpdateSessionStatus(UpdateSessionRAGProjectContext(db, ProjectID, rag.text),
                                    SessionStatusChooseMode), 0)

SubmitTextUserProjectContext(db) ==
    IF ~GetSessionByID(db) THEN Fail(db, ErrNotFound)
    ELSE IF db.session.status # SessionStatusAskUserContext THEN Fail(db, ErrWrongStatus)
    ELSE Return(UpdateSessionStatus(UpdateSessionProjectContext(db, ManualContext),
                                    SessionStatusChooseMode), 0)

\* SetSessionType without its status guard
SetSessionTypeUnguarded(db, sessionType) ==
    IF sessionType \notin SessionTypes THEN Fail(db, ErrPrecondition)
    ELSE IF ~GetSessionByID(db) THEN Fail(db, ErrNotFound)
    ELSE Return(UpdateSessionStatus(UpdateSessionType(db, sessionType),
                    IF sessionType = SessionTypeInterview
                    THEN SessionStatusInterviewInfo ELSE SessionStatusDraftInfo), 0)

SetSessionType(db, sessionType) ==
    IF sessionType \notin SessionTypes THEN Fail(db, ErrPrecondition)
    ELSE IF ~GetSessionByID(db) THEN Fail(db, ErrNotFound)
    ELSE IF db.session.status # SessionStatusChooseMode THEN Fail(db, ErrWrongStatus)
    ELSE Return(UpdateSessionStatus(UpdateSessionType(db, sessionType),
                    IF sessionType = SessionTypeInterview
                    THEN SessionStatusInterviewInfo ELSE SessionStatusDraftInfo), 0)

StartManualContext(db) ==
    IF ~GetSessionByID(db) THEN Fail(db, ErrNotFound)
    ELSE IF db.session.status # SessionStatusSelectOrCreateProject THEN Fail(db, ErrWrongStatus)
    ELSE Return(UpdateSessionStatus(db, SessionStatusAskUserContext), 0)

\* RestartModeSelection without its status guard
RestartModeSelectionUnguarded(db) ==
    IF ~GetSessionByID(db) THEN Fail(db, ErrNotFound)
    ELSE Return(UpdateSessionStatus(db, SessionStatusChooseMode), 0)

RestartModeSelection(db) ==
    IF ~GetSessionByID(db) THEN Fail(db, ErrNotFound)
    ELSE IF db.session.status # SessionStatusInterviewInfo
            /\ db.session.status # SessionStatusDraftInfo THEN Fail(db, ErrWrongStatus)
    ELSE Return(UpdateSessionStatus(db, SessionStatusChooseMode), 0)

RestartProjectSelection(db) ==
    IF ~GetSessionByID(db) THEN Fail(db, ErrNotFound)
    ELSE IF db.session.status # SessionStatusChooseMode THEN Fail(db, ErrWrongStatus)
    ELSE Return(UpdateSessionStatus(db, SessionStatusSelectOrCreateProject), 0)

StartDraftCollecting(db) ==
    IF ~GetSessionByID(db) THEN Fail(db, ErrNotFound)
    ELSE IF db.session.type # SessionTypeDraft THEN Fail(db, ErrPrecondition)
    ELSE IF db.session.status # SessionStatusDraftInfo THEN Fail(db, ErrWrongStatus)
    ELSE Return(UpdateSessionStatus(db, SessionStatusDraftCollecting), 0)

LoadSessionQuestions(db, project, llm) ==
    IF ~GetSessionByID(db) THEN Fail(db, ErrNotFound)
    ELSE IF db.session.status # SessionStatusInterviewInfo THEN Fail(db, ErrWrongStatus)
    ELSE IF db.session.userGoal = Null THEN Fail(db, ErrPrecondition)
    ELSE IF db.session.projectContext = Null THEN Fail(db, ErrPrecondition)
    ELSE IF db.session.projectID # Null /\ project # "found" THEN Fail(db, ErrInternal)
    ELSE IF generateQuestionsBlocks(llm) # Ok THEN Fail(db, generateQuestionsBlocks(llm))
    ELSE LET saved == saveQuestionsToDatabase(db, llm.blocks, GeneratedTitles(llm.blocks))
         IN  IF saved.err # Ok THEN saved
             ELSE Return(UpdateSessionStatus(
                            UpdateSessionStatus(saved.db, SessionStatusWaitingForAnswers),
                            SessionStatusWaitingForAnswers), saved.ret)

SkipAnswer(db, questionID) ==
    IF ~GetSessionByID(db) THEN Fail(db, ErrNotFound)
    ELSE IF db.session.status # SessionStatusWaitingForAnswers THEN Fail(db, ErrWrongStatus)
    ELSE LET iteration == getCurrentIteration(SkipQuestion(db, questionID))
         IN  IF iteration.err # Ok THEN iteration
             ELSE IF iteration.ret = 0
             THEN Return(UpdateSessionStatus(iteration.db, SessionStatusValidating), 0)
             ELSE iteration

\* SubmitTextAnswer moving on as soon as no iteration remains
SubmitTextAnswerIgnoringSkipped(db, questionID, answer) ==
    IF ~GetSessionByID(db) THEN Fail(db, ErrNotFound)
    ELSE IF db.session.status # SessionStatusWaitingForAnswers THEN Fail(db, ErrWrongStatus)
    ELSE LET iteration == getCurrentIteration(UpdateQuestionAnswer(db, questionID, answer))
         IN  IF iteration.err # Ok THEN iteration
             ELSE IF iteration.ret = 0
             THEN Return(UpdateSessionStatus(iteration.db, SessionStatusValidating), 0)
             ELSE iteration

SubmitTextAnswer(db, questionID, answer) ==
    IF ~GetSessionByID(db) THEN Fail(db, ErrNotFound)
    ELSE IF db.session.status # SessionStatusWaitingForAnswers THEN Fail(db, ErrWrongStatus)
    ELSE LET iteration == getCurrentIteration(UpdateQuestionAnswer(db, questionID, answer))
         IN  IF iteration.err # Ok THEN iteration
             ELSE IF iteration.ret = 0 /\ GetUnansweredQuestions(iteration.db) = {}
             THEN Return(UpdateSessionStatus(iteration.db, SessionStatusValidating), 0)
             ELSE iteration

SkipSkipedQuestion(db, questionID) ==
    IF ~GetSessionByID(db) THEN Fail(db, ErrNotFound)
    ELSE IF db.session.status # SessionStatusWaitingForAnswers THEN Fail(db, ErrWrongStatus)
    ELSE LET skipped == SkipQuestion(db, questionID)
         IN  IF GetUnansweredQuestions(skipped) = {}
             THEN Return(UpdateSessionStatus(skipped, SessionStatusValidating), 0)
             ELSE Return(skipped, 0)

SetWaitingForAnswersStatus(db) ==
    IF ~GetSessionByID(db) THEN Fail(db, ErrNotFound)
    ELSE Return(UpdateSessionStatus(db, SessionStatusWaitingForAnswers), 0)

\* ValidateAnswers saving the follow-up block without the status update
ValidateAnswersWithoutStatusUpdate(db, llm) ==
    IF ~GetSessionByID(db) THEN Fail(db, ErrNotFound)
    ELSE IF db.session.status # SessionStatusValidating
            /\ db.session.status # SessionStatusWaitingForAnswers THEN Fail(db, ErrWrongStatus)
    ELSE IF db.session.userGoal = Null THEN Fail(db, ErrPrecondition)
    ELSE IF db.session.projectContext = Null THEN Fail(db, ErrPrecondition)
    ELSE IF hasAdditionalBlock(db.iterations)
    THEN Return(UpdateSessionStatus(db, SessionStatusGeneratingRequirements), 0)
    ELSE IF llm.err THEN Fail(db, ErrGateway)
    ELSE IF llm.questions # 0
    THEN saveQuestionsToDatabase(db, <<llm.questions>>, <<AdditionalTitle>>)
    ELSE Return(UpdateSessionStatus(db, SessionStatusGeneratingRequirements), 0)

ValidateAnswers(db, llm) ==
    IF ~GetSessionByID(db) THEN Fail(db, ErrNotFound)
    ELSE IF db.session.status # SessionStatusValidating
            /\ db.session.status # SessionStatusWaitingForAnswers THEN Fail(db, ErrWrongStatus)
    ELSE IF db.session.userGoal = Null THEN Fail(db, ErrPrecondition)
    ELSE IF db.session.projectContext = Null THEN Fail(db, ErrPrecondition)
    ELSE IF hasAdditionalBlock(db.iterations)
    THEN Return(UpdateSessionStatus(db, SessionStatusGeneratingRequirements), 0)
    ELSE IF llm.err THEN Fail(db, ErrGateway)
    ELSE IF llm.questions # 0
    THEN LET saved == saveQuestionsToDatabase(db, <<llm.questions>>, <<AdditionalTitle>>)
         IN  IF saved.err # Ok THEN saved
             ELSE Return(UpdateSessionStatus(saved.db, SessionStatusWaitingForAnswers), saved.ret)
    ELSE Return(UpdateSessionStatus(db, SessionStatusGeneratingRequirements), 0)

GenerateSummary(db, llm) ==
    IF ~GetSessionByID(db) THEN Fail(db, ErrNotFound)
    ELSE IF db.session.status # SessionStatusGeneratingRequirements
            /\ db.session.status # SessionStatusWaitingForAnswers THEN Fail(db, ErrWrongStatus)
    ELSE IF db.session.userGoal = Null THEN Fail(db, ErrPrecondition)
    ELSE IF db.session.projectContext = Null THEN Fail(db, ErrPrecondition)
    ELSE IF llm.err THEN Fail(db, ErrGateway)
    ELSE Return(UpdateSessionResult(db, SessionStatusDone, llm.text), 0)

\* CancelSession without its status guard
CancelSessionUnguarded(db) ==
    IF ~GetSessionByID(db) THEN Fail(db, ErrNotFound)
    ELSE Return(UpdateSessionStatus(db, SessionStatusCanceled), 0)

CancelSession(db) ==
    IF ~GetSessionByID(db) THEN Fail(db, ErrNotFound)
    ELSE IF db.session.status = SessionStatusDone
            \/ db.session.status = SessionStatusCanceled THEN Fail(db, ErrWrongStatus)
    ELSE Return(UpdateSessionStatus(db, SessionStatusCanceled), 0)

\* SessionUsecase.UpdateSessionStatus: the unguarded setter of the use case
UsecaseUpdateSessionStatus(db, status) ==
    IF ~GetSessionByID(db) THEN Fail(db, ErrNotFound)
    ELSE Return(UpdateSessionStatus(db, status), 0)

AddDraftMessage(db) ==
    IF ~GetSessionByID(db) THEN Fail(db, ErrNotFound)
    ELSE IF db.session.status # SessionStatusDraftCollecting THEN Fail(db, ErrWrongStatus)
    ELSE Return(CreateMessage(db), 0)

ValidateDraftMessages(db, project, llm) ==
    IF ~GetSessionByID(db) THEN Fail(db, ErrNotFound)
    ELSE IF db.session.status # SessionStatusDraftCollecting
            /\ db.session.status # SessionStatusWaitingForAnswers
            /\ db.session.status # SessionStatusValidating THEN Fail(db, ErrWrongStatus)
    ELSE IF db.session.userGoal = Null THEN Fail(db, ErrPrecondition)
    ELSE IF db.session.projectContext = Null THEN Fail(db, ErrPrecondition)
    ELSE IF hasAdditionalBlock(db.iterations)
    THEN Return(UpdateSessionStatus(db, SessionStatusGeneratingRequirements), 0)
    ELSE LET validating == UpdateSessionStatus(db, SessionStatusValidating)
         IN  IF validating.sessionMessages = 0 THEN Fail(validating, ErrPrecondition)
             ELSE IF db.session.projectID # Null /\ project = "missing"
             THEN Fail(validating, ErrInternal)
             ELSE IF llm.err THEN Fail(validating, ErrGateway)
             ELSE IF llm.questions = 0
             THEN Return(UpdateSessionStatus(validating, SessionStatusGeneratingRequirements), 0)
             ELSE LET saved == saveQuestionsToDatabase(validating, <<llm.questions>>,
                                                       <<AdditionalTitle>>)
                  IN  IF saved.err # Ok THEN saved
                      ELSE Return(UpdateSessionStatus(saved.db, SessionStatusWaitingForAnswers),
                                  saved.ret)

GenerateDraftSummary(db, project, llm) ==
    IF ~GetSessionByID(db) THEN Fail(db, ErrNotFound)
    ELSE IF db.session.status # SessionStatusGeneratingRequirements
            /\ db.session.status # SessionStatusWaitingForAnswers THEN Fail(db, ErrWrongStatus)
    ELSE IF db.session.userGoal = Null THEN Fail(db, ErrPrecondition)
    ELSE IF db.session.projectContext = Null THEN Fail(db, ErrPrecondition)
    ELSE IF db.sessionMessages = 0 THEN Fail(db, ErrPrecondition)
    ELSE IF db.session.projectID # Null /\ project = "missing" THEN Fail(db, ErrInternal)
    ELSE IF llm.err THEN Fail(db, ErrGateway)
    ELSE Return(UpdateSessionResult(db, SessionStatusDone, llm.text), 0)

\* the one-shot entry of the HTTP front-end; withProject: the request names a
\* project, goal: the request's user goal
StartHTTPSession(db, goal, withProject, project, rag, llm) ==
    IF withProject /\ project = "missing" THEN Fail(db, ErrInternal)
    ELSE IF withProject /\ rag.err THEN Fail(db, ErrGateway)
    ELSE LET created ==
                CreateFilledSession(db, SessionStatusWaitingForAnswers, SessionTypeInterview,
                    goal, IF withProject THEN rag.text ELSE ManualContext,
                    IF withProject THEN ProjectID ELSE Null)
         IN  IF generateQuestionsBlocks(llm) # Ok THEN Fail(created, generateQuestionsBlocks(llm))
             ELSE saveQuestionsToDatabase(created, llm.blocks, GeneratedTitles(llm.blocks))


(***************************************************************************)
(* Chat front-end handlers that write the session status themselves.       *)
(***************************************************************************)
\* CallbackHandler.handleAnswerSkipped: nothing to replay, or back to
\* WAITING_FOR_ANSWERS
handleAnswerSkipped(db) ==
    IF ~GetSessionByID(db) THEN Fail(db, ErrNotFound)
    ELSE IF GetUnansweredQuestions(db) = {} THEN Return(db, 0)
    ELSE SetWaitingForAnswersStatus(db)

handleSaveNewProject(db) ==
    UsecaseUpdateSessionStatus(db, SessionStatusAskProjectName)

\* ProjectNameHandler.Handle, reached by a text message while the status is
\* ASK_PROJECT_NAME
ProjectNameHandler(db) ==
    UsecaseUpdateSessionStatus(db, SessionStatusAskProjectDescription)

\* ProjectDescriptionHandler.Handle without the test of the result
ProjectDescriptionHandlerWithoutResult(db, created) ==
    IF ~GetSessionByID(db) THEN Fail(db, ErrNotFound)
    ELSE IF ~created THEN Return(db, 0)
    ELSE LET updated == UsecaseUpdateSessionStatus(db, SessionStatusDone)
         IN  Return(updated.db, 0)

\* ProjectDescriptionHandler.Handle, reached by a text message while the
\* status is ASK_PROJECT_DESCRIPTION; created: CreateProjectFromContent succeeded
ProjectDescriptionHandler(db, created) ==
    IF ~GetSessionByID(db) THEN Fail(db, ErrNotFound)
    ELSE IF db.session.result = Null THEN Return(db, 0)
    ELSE IF ~created THEN Return(db, 0)
    ELSE LET updated == UsecaseUpdateSessionStatus(db, SessionStatusDone)
         IN  Return(updated.db, 0)

(***************************************************************************)
(* Spec: one request at a time, every operation one step.  A request that  *)
(* its operation rejects at the status guard changes nothing: its step is  *)
(* a stuttering step, and the action is enabled only when the guard of the *)
(* operation lets the request through.                                     *)
(***************************************************************************)
Tasks == { 1, 2 }

\* a request task before its call: pc is the statement it is at, seen the
\* status its guard read, blocks / title / max / idx / left the locals of
\* saveQuestionsToDatabase, target the status it is about to write, text the
\* summary it is about to store, count the draft message counter it loaded
IdleTask ==
    [ pc |-> "idle", op |-> "none", err |-> Ok, seen |-> NoSession, blocks |-> <<>>,
      title |-> Null, max |-> 0, idx |-> 0, left |-> 0, target |-> NoSession, text |-> Null,
      count |-> 0, questionID |-> NoQuestion ]

\* StateData of a new telegram_sessions row ("{}"): no current or previous
\* question, an empty forward stack, no replay, no processing, no pending
\* confirmation
InitialStateData ==
    [ currentQuestionID |-> NoQuestion, previousQuestionID |-> NoQuestion,
      nextQuestionIDs |-> <<>>, answeringSkipped |-> FALSE, totalSkippedQuestions |-> 0,
      skippedQuestionIDs |-> <<>>, currentSkippedQuestionIndex |-> 0,
      currentSkippedQuestionNumber |-> 0,
      isProcessing |-> FALSE, processingStarted |-> 0, pendingConfirmation |-> Null ]

\* end-users of the chat
Users == { 1, 2 }

\* NewRateLimiterMiddleware: limits is an empty map; byUser gives the entry
\* of a user (0: none), entries the userLimit values allocated so far
NoLimits ==
    [ byUser |-> [ u \in Users |-> 0 ], entries |-> <<>> ]

\* a chat update outside RateLimiterMiddleware.Handle: kind is what the update
\* carries, limit the userLimit allowRequest looked up, passed whether the
\* last update of the task was handed to next
IdleUpdate ==
    [ pc |-> "idle", user |-> 0, kind |-> "none", limit |-> 0, passed |-> FALSE ]

\* the question row of another session, as CreateQuestion inserts it
OtherUnanswered == [ status |-> AnswerStatusUnanswered, answer |-> Null ]

\* no event emitted: sink the events the destination received, log the
\* events whose delivery error was logged, attempts the requests made for the
\* last event, network what the destination did with it, surfaced the error
\* the emitter handed back to its caller
NoEvents ==
    [ sink |-> <<>>, log |-> <<>>, attempts |-> 0, network |-> "none",
      surfaced |-> "nothing" ]

\* a callback query before Bot.handleCallbackQuery has loaded the state data
\* for it: pc is the statement its handler is at, action the button pressed,
\* data the StateData in its context
IdleCallback ==
    [ pc |-> "idle", action |-> "none", data |-> InitialStateData ]

\* no chat handler has run: value is the question id or confirmation value of
\* the button, presented the question shown, triggered that the validation
\* path ran, acted that the session was cancelled and the chat state deleted
NoNavigation ==
    [ op |-> "none", value |-> NoQuestion, err |-> Ok, presented |-> NoQuestion,
      triggered |-> FALSE, acted |-> FALSE ]

NoOperation ==
    [ op |-> "none", before |-> [ status |-> NoSession, type |-> Null, result |-> Null ],
      err |-> Ok, ret |-> 0, writes |-> <<>>, questionID |-> NoQuestion ]

Init ==
    /\ session = [ status |-> NoSession, type |-> Null, userGoal |-> Null,
                   projectContext |-> Null, projectID |-> Null,
                   currentIteration |-> 1, result |-> Null ]
    /\ iterations = <<>>
    /\ sessionMessages = 0
    /\ tgLinked = FALSE
    /\ draftMessageCount = 0
    /\ stateData = InitialStateData
    /\ now = 0
    /\ nav = NoNavigation
    /\ callbacks = [ t \in Tasks |-> IdleCallback ]
    /\ limits = NoLimits
    /\ updates = [ t \in Tasks |-> IdleUpdate ]
    /\ events = NoEvents
    /\ otherQuestion = OtherUnanswered
    /\ last = NoOperation
    /\ tasks = [ t \in Tasks |-> IdleTask ]

\* the operation got past its session lookup and status guard
StatusGuardPassed(out) == out.err \notin { ErrNotFound, ErrWrongStatus }

\* the step of an operation with outcome out; last records the operation, the
\* status, mode and result it started from and its outcome, unless it failed
\* without writing anything
Commit(op, questionID, out) ==
    /\ StatusGuardPassed(out)
    /\ session' = out.db.session
    /\ iterations' = out.db.iterations
    /\ sessionMessages' = out.db.sessionMessages
    /\ last' = IF out.err # Ok /\ out.db = DB THEN last
               ELSE [ op |-> op,
                      before |-> [ status |-> session.status, type |-> session.type,
                                   result |-> session.result ],
                      err |-> out.err, ret |-> out.ret,
                      writes |-> out.db.writes, questionID |-> questionID ]
    /\ UNCHANGED tasks

\* ids a request can name: the questions of the session and an unknown id
RequestQuestionIDs == QuestionIDs(iterations) \cup { NoQuestion }

\* CallbackHandler.handleStart: a new session, linked to the chat user
DoHandleStart ==
    /\ session.status = NoSession
    /\ Commit("StartSession", NoQuestion, StartSession(DB))
    /\ tgLinked' = TRUE
    /\ UNCHANGED <<draftMessageCount, chatVars>>

\* Handler.StartSession of the HTTP front-end (the request passed
\* ValidateStartSession: the goal is not empty)
DoStartHTTPSession ==
    /\ session.status = NoSession
    /\ \E goal \in Goals \ { Null }, withProject \in BOOLEAN, project \in ProjectLookups,
          rag \in RagResponses, llm \in GenerateQuestionsResponses :
            Commit("StartHTTPSession", NoQuestion,
                   StartHTTPSession(DB, goal, withProject, project, rag, llm))
    /\ UNCHANGED <<tgLinked, draftMessageCount, chatVars>>

DoSubmitTextUserGoal ==
    /\ \E goal \in Goals : Commit("SubmitTextUserGoal", NoQuestion, SubmitTextUserGoal(DB, goal))
    /\ UNCHANGED <<tgLinked, draftMessageCount, chatVars>>

DoSubmitRAGProjectContext ==
    /\ \E project \in ProjectLookups, rag \in RagResponses :
            Commit("SubmitRAGProjectContext", NoQuestion, SubmitRAGProjectContext(DB, project, rag))
    /\ UNCHANGED <<tgLinked, draftMessageCount, chatVars>>

DoSubmitTextUserProjectContext ==
    /\ Commit("SubmitTextUserProjectContext", NoQuestion, SubmitTextUserProjectContext(DB))
    /\ UNCHANGED <<tgLinked, draftMessageCount, chatVars>>

DoSetSessionType ==
    /\ \E sessionType \in SessionTypes \cup { "UNKNOWN" } :
            Commit("SetSessionType", NoQuestion, SetSessionType(DB, sessionType))
    /\ UNCHANGED <<tgLinked, draftMessageCount, chatVars>>

DoStartManualContext ==
    /\ Commit("StartManualContext", NoQuestion, StartManualContext(DB))
    /\ UNCHANGED <<tgLinked, draftMessageCount, chatVars>>

DoRestartModeSelection ==
    /\ Commit("RestartModeSelection", NoQuestion, RestartModeSelection(DB))
    /\ UNCHANGED <<tgLinked, draftMessageCount, chatVars>>

DoRestartProjectSelection ==
    /\ Commit("RestartProjectSelection", NoQuestion, RestartProjectSelection(DB))
    /\ UNCHANGED <<tgLinked, draftMessageCount, chatVars>>

\* CallbackHandler.handleStartDraft: a successful StartDraftCollecting is
\* followed by the reset of the draft message counter
DoStartDraftCollecting ==
    /\ Commit("StartDraftCollecting", NoQuestion, StartDraftCollecting(DB))
    /\ draftMessageCount' = IF StartDraftCollecting(DB).err = Ok THEN 0 ELSE draftMessageCount
    /\ UNCHANGED <<tgLinked, chatVars>>

DoLoadSessionQuestions ==
    /\ \E project \in ProjectLookups, llm \in GenerateQuestionsResponses :
            Commit("LoadSessionQuestions", NoQuestion, LoadSessionQuestions(DB, project, llm))
    /\ UNCHANGED <<tgLinked, draftMessageCount, chatVars>>

DoSkipAnswer ==
    /\ \E questionID \in RequestQuestionIDs :
            Commit("SkipAnswer", questionID, SkipAnswer(DB, questionID))
    /\ UNCHANGED <<tgLinked, draftMessageCount, chatVars>>

\* answer texts a request can carry: a text or nothing
RequestAnswers == AnswerTexts \cup { Null }

\* a front-end that hands every answer on, an empty one included
ValidateSubmitAnswerAcceptingEmpty(answer) == TRUE

\* the front-ends hand on a non-empty answer only (ValidateSubmitAnswer of the
\* HTTP handler, msg.Text != "" of the chat handler, the transcription check)
ValidateSubmitAnswer(answer) == answer # Null

DoSubmitTextAnswer ==
    /\ \E questionID \in RequestQuestionIDs, answer \in RequestAnswers :
            /\ ValidateSubmitAnswer(answer)
            /\ Commit("SubmitTextAnswer", questionID, SubmitTextAnswer(DB, questionID, answer))
    /\ UNCHANGED <<tgLinked, draftMessageCount, chatVars>>

DoSkipSkipedQuestion ==
    /\ \E questionID \in RequestQuestionIDs :
            Commit("SkipSkipedQuestion", questionID, SkipSkipedQuestion(DB, questionID))
    /\ UNCHANGED <<tgLinked, draftMessageCount, chatVars>>

DoValidateAnswers ==
    /\ \E llm \in ValidateResponses : Commit("ValidateAnswers", NoQuestion, ValidateAnswers(DB, llm))
    /\ UNCHANGED <<tgLinked, draftMessageCount, chatVars>>

DoGenerateSummary ==
    /\ \E llm \in SummaryResponses : Commit("GenerateSummary", NoQuestion, GenerateSummary(DB, llm))
    /\ UNCHANGED <<tgLinked, draftMessageCount, chatVars>>

\* Handler.CancelSession of the HTTP front-end
DoCancelSession ==
    /\ Commit("CancelSession", NoQuestion, CancelSession(DB))
    /\ UNCHANGED <<tgLinked, draftMessageCount, chatVars>>

\* DraftHandler.Handle: stateData.DraftMessageCount >= maxMessages
DraftLimitReached(count) == count >= MaxMessages

\* DraftHandler.Handle: a message at the cap is rejected before the use case
\* is called; a created message is counted
DoAddDraftMessage ==
    /\ ~DraftLimitReached(draftMessageCount)
    /\ Commit("AddDraftMessage", NoQuestion, AddDraftMessage(DB))
    /\ draftMessageCount' = IF AddDraftMessage(DB).err = Ok THEN draftMessageCount + 1
                            ELSE draftMessageCount
    /\ UNCHANGED <<tgLinked, chatVars>>

DoValidateDraftMessages ==
    /\ \E project \in ProjectLookups, llm \in ValidateResponses :
            Commit("ValidateDraftMessages", NoQuestion, ValidateDraftMessages(DB, project, llm))
    /\ UNCHANGED <<tgLinked, draftMessageCount, chatVars>>

DoGenerateDraftSummary ==
    /\ \E project \in ProjectLookups, llm \in SummaryResponses :
            Commit("GenerateDraftSummary", NoQuestion, GenerateDraftSummary(DB, project, llm))
    /\ UNCHANGED <<tgLinked, draftMessageCount, chatVars>>

\* button "answer_skipped" of the chat of the linked user
DoHandleAnswerSkipped ==
    /\ tgLinked
    /\ Commit("handleAnswerSkipped", NoQuestion, handleAnswerSkipped(DB))
    /\ UNCHANGED <<tgLinked, draftMessageCount, chatVars>>

\* button "save_new_project"
DoHandleSaveNewProject ==
    /\ tgLinked
    /\ Commit("handleSaveNewProject", NoQuestion, handleSaveNewProject(DB))
    /\ UNCHANGED <<tgLinked, draftMessageCount, chatVars>>

\* Bot.handleMessage routes a text message by the session status
DoProjectNameHandler ==
    /\ tgLinked
    /\ session.status = SessionStatusAskProjectName
    /\ Commit("ProjectNameHandler", NoQuestion, ProjectNameHandler(DB))
    /\ UNCHANGED <<tgLinked, draftMessageCount, chatVars>>

DoProjectDescriptionHandler ==
    /\ tgLinked
    /\ session.status = SessionStatusAskProjectDescription
    /\ \E created \in BOOLEAN :
            Commit("ProjectDescriptionHandler", NoQuestion, ProjectDescriptionHandler(DB, created))
    /\ UNCHANGED <<tgLinked, draftMessageCount, chatVars>>

\* CallbackHandler.handleConfirmation with a pending confirmation: cancels
\* (the error of CancelSession is only logged) and deletes the chat session
DoHandleConfirmation ==
    /\ tgLinked
    /\ Commit("handleConfirmation", NoQuestion, Return(CancelSession(DB).db, 0))
    /\ tgLinked' = FALSE
    /\ draftMessageCount' = 0
    /\ UNCHANGED chatVars

Next ==
    \/ DoHandleStart
    \/ DoStartHTTPSession
    \/ DoSubmitTextUserGoal
    \/ DoSubmitRAGProjectContext
    \/ DoSubmitTextUserProjectContext
    \/ DoSetSessionType
    \/ DoStartManualContext
    \/ DoRestartModeSelection
    \/ DoRestartProjectSelection
    \/ DoStartDraftCollecting
    \/ DoLoadSessionQuestions
    \/ DoSkipAnswer
    \/ DoSubmitTextAnswer
    \/ DoSkipSkipedQuestion
    \/ DoValidateAnswers
    \/ DoGenerateSummary
    \/ DoCancelSession
    \/ DoAddDraftMessage
    \/ DoValidateDraftMessages
    \/ DoGenerateDraftSummary
    \/ DoHandleAnswerSkipped
    \/ DoHandleSaveNewProject
    \/ DoProjectNameHandler
    \/ DoProjectDescriptionHandler
    \/ DoHandleConfirmation

Spec == Init /\ [][Next]_vars

TypeOK ==
    /\ session.status \in SessionStatuses \cup { NoSession }
    /\ session.type \in SessionTypes \cup { Null }
    /\ session.currentIteration \in 1..(MaxBlocks + 2)
    /\ sessionMessages \in 0..MaxMessages
    /\ draftMessageCount \in 0..MaxMessages
    /\ last.err \in Errors \cup { Ok, ErrNotFound }

(***************************************************************************)
(* Status graph of the design and the status changes of an operation.      *)
(***************************************************************************)
TerminalStatuses == { SessionStatusDone, SessionStatusError, SessionStatusCanceled }

NonTerminalStatuses == SessionStatuses \ TerminalStatuses

\* New -> AskGoal -> SelectOrCreateProject -> {AskManualContext | linked
\* project} -> ChooseMode -> {InterviewInfo -> WaitingForAnswers | DraftInfo ->
\* DraftCollecting} -> Validating -> [GeneratingRequirements <-> WaitingForAnswers]
\* -> Done, read with the statuses the contracts of validate and of the
\* summary operations accept, plus Canceled and Error from every non-terminal
\* status
GraphEdges ==
    { <<SessionStatusNew, SessionStatusAskUserGoal>>,
      <<SessionStatusAskUserGoal, SessionStatusSelectOrCreateProject>>,
      <<SessionStatusSelectOrCreateProject, SessionStatusAskUserContext>>,
      <<SessionStatusSelectOrCreateProject, SessionStatusChooseMode>>,
      <<SessionStatusAskUserContext, SessionStatusChooseMode>>,
      <<SessionStatusChooseMode, SessionStatusInterviewInfo>>,
      <<SessionStatusChooseMode, SessionStatusDraftInfo>>,
      <<SessionStatusInterviewInfo, SessionStatusWaitingForAnswers>>,
      <<SessionStatusDraftInfo, SessionStatusDraftCollecting>>,
      <<SessionStatusWaitingForAnswers, SessionStatusValidating>>,
      <<SessionStatusDraftCollecting, SessionStatusValidating>>,
      <<SessionStatusDraftCollecting, SessionStatusGeneratingRequirements>>,
      <<SessionStatusValidating, SessionStatusGeneratingRequirements>>,
      <<SessionStatusValidating, SessionStatusWaitingForAnswers>>,
      <<SessionStatusWaitingForAnswers, SessionStatusGeneratingRequirements>>,
      <<SessionStatusGeneratingRequirements, SessionStatusWaitingForAnswers>>,
      <<SessionStatusGeneratingRequirements, SessionStatusDone>>,
      <<SessionStatusWaitingForAnswers, SessionStatusDone>> }
    \cup { <<s, t>> : s \in NonTerminalStatuses,
                      t \in { SessionStatusCanceled, SessionStatusError } }

\* the status the last operation started from, followed by its status writes
StatusTrace == <<last.before.status>> \o last.writes

\* the status changes the last operation made
StatusChanges ==
    { <<StatusTrace[i], StatusTrace[i + 1]>> : i \in 1..Len(last.writes) }
        \ { <<s, s>> : s \in SessionStatuses }

\* C1 as stated: every status change of every operation is an edge of the
\* status graph.
C1_OnlyGraphEdges == StatusChanges \subseteq GraphEdges

\* the edges outside the graph, with the operation that owns each
BackEdge(op, e) ==
    \/ /\ op = "RestartModeSelection"
       /\ e[1] \in { SessionStatusInterviewInfo, SessionStatusDraftInfo }
       /\ e[2] = SessionStatusChooseMode
    \/ /\ op = "RestartProjectSelection"
       /\ e = <<SessionStatusChooseMode, SessionStatusSelectOrCreateProject>>
    \/ /\ op = "handleAnswerSkipped"
       /\ e[2] = SessionStatusWaitingForAnswers
    \/ /\ op = "handleSaveNewProject"
       /\ e[2] = SessionStatusAskProjectName
    \/ /\ op = "ProjectNameHandler"
       /\ e = <<SessionStatusAskProjectName, SessionStatusAskProjectDescription>>
    \/ /\ op = "ProjectDescriptionHandler"
       /\ e = <<SessionStatusAskProjectDescription, SessionStatusDone>>

\* C1, amended: every status change is an edge of the status graph, or the
\* back edge of RestartModeSelection (InterviewInfo/DraftInfo -> ChooseMode) or
\* of RestartProjectSelection (ChooseMode -> SelectOrCreateProject), or a write
\* of the chat handlers: handleAnswerSkipped (any status -> WaitingForAnswers),
\* handleSaveNewProject (any status -> AskProjectName), the project name and
\* description handlers (AskProjectName -> AskProjectDescription -> Done).
C1_GraphOrBackEdges ==
    \A e \in StatusChanges : e \in GraphEdges \/ BackEdge(last.op, e)

\* RestartModeSelection took a session from InterviewInfo back to ChooseMode
C1_Witness ==
    /\ last.op = "RestartModeSelection"
    /\ StatusChanges = { <<SessionStatusInterviewInfo, SessionStatusChooseMode>> }

(***************************************************************************)
(* Guard contract                                                          *)
(***************************************************************************)
\* the statuses the contract of an operation requires; the replay entry
\* SetWaitingForAnswersStatus (reached through handleAnswerSkipped) is
\* documented as the move from DONE back into the validation flow
RequiredStatuses(op) ==
    CASE op \in { "StartSession", "StartHTTPSession" } -> { NoSession }
      [] op = "SubmitTextUserGoal" -> { SessionStatusAskUserGoal }
      [] op \in { "SubmitRAGProjectContext", "StartManualContext" } ->
            { SessionStatusSelectOrCreateProject }
      [] op = "SubmitTextUserProjectContext" -> { SessionStatusAskUserContext }
      [] op \in { "SetSessionType", "RestartProjectSelection" } -> { SessionStatusChooseMode }
      [] op = "RestartModeSelection" -> { SessionStatusInterviewInfo, SessionStatusDraftInfo }
      [] op = "StartDraftCollecting" -> { SessionStatusDraftInfo }
      [] op = "LoadSessionQuestions" -> { SessionStatusInterviewInfo }
      [] op \in { "SkipAnswer", "SubmitTextAnswer", "SkipSkipedQuestion" } ->
            { SessionStatusWaitingForAnswers }
      [] op = "ValidateAnswers" ->
            { SessionStatusValidating, SessionStatusWaitingForAnswers }
      [] op = "ValidateDraftMessages" ->
            { SessionStatusValidating, SessionStatusWaitingForAnswers,
              SessionStatusDraftCollecting }
      [] op \in { "GenerateSummary", "GenerateDraftSummary" } ->
            { SessionStatusGeneratingRequirements, SessionStatusWaitingForAnswers }
      [] op = "CancelSession" ->
            SessionStatuses \ { SessionStatusDone, SessionStatusCanceled }
      [] op = "AddDraftMessage" -> { SessionStatusDraftCollecting }
      [] op = "handleAnswerSkipped" -> { SessionStatusDone }
      [] OTHER -> SessionStatuses

\* C2: an operation that went through (it succeeded, or it wrote to the
\* database) started on a status of its required status set; on every other
\* status it fails and changes nothing.
C2_GuardContract ==
    /\ last.op \notin { "none", "handleAnswerSkipped" } =>
            last.before.status \in RequiredStatuses(last.op)
    /\ last.op = "handleAnswerSkipped" /\ last.writes # <<>> =>
            last.before.status \in RequiredStatuses(last.op)

(***************************************************************************)
(* Terminal statuses                                                       *)
(***************************************************************************)
\* the last operation took the session from a terminal status to a
\* non-terminal one
LeftTerminal ==
    /\ last.before.status \in TerminalStatuses
    /\ \E i \in DOMAIN last.writes : last.writes[i] \in NonTerminalStatuses

\* C4 as stated: once Done, Error or Canceled, no action changes the status to
\* a non-terminal status.
C4_NoResurrection == ~LeftTerminal

\* C4, amended: no operation of the workflow engine that checks the status
\* takes a session out of Done, Error or Canceled; only the chat handlers
\* handleAnswerSkipped (replay of skipped questions, to WaitingForAnswers) and
\* handleSaveNewProject (to AskProjectName) do.
C4_TerminalLeftOnlyByChatHandlers ==
    LeftTerminal => last.op \in { "handleAnswerSkipped", "handleSaveNewProject" }

\* the replay entry took a Done session back to WaitingForAnswers
C4_Witness ==
    /\ last.op = "handleAnswerSkipped"
    /\ last.before.status = SessionStatusDone
    /\ session.status = SessionStatusWaitingForAnswers

(***************************************************************************)
(* Failures after the status guard                                         *)
(***************************************************************************)
\* C6: an operation that fails after its status guard passed leaves the
\* status of the session as it was before the operation started.
C6_FailureKeepsStatus ==
    last.err # Ok => session.status = last.before.status

(***************************************************************************)
(* Result and mode                                                         *)
(***************************************************************************)
\* C7 as stated: a stored result text is never changed or cleared.
C7_ResultImmutable ==
    last.before.result # Null => session.result = last.before.result

\* C7, amended: a stored result text is never cleared; it is replaced only by
\* a later successful GenerateSummary / GenerateDraftSummary (the summary
\* generated again after the replay of skipped questions), which leaves the
\* session Done.
C7_ResultOnlyReplacedBySummary ==
    last.before.result # Null =>
        /\ session.result # Null
        /\ session.result # last.before.result =>
                /\ last.op \in { "GenerateSummary", "GenerateDraftSummary" }
                /\ last.err = Ok
                /\ session.status = SessionStatusDone

\* a second summary replaced the stored result
C7_Witness ==
    /\ last.before.result # Null
    /\ session.result # last.before.result
    /\ last.op = "GenerateSummary"

\* C8 as stated: a mode, once set, never changes to a different value.
C8_ModeImmutable ==
    last.before.type # Null => session.type = last.before.type

\* C8, amended: the mode changes only by SetSessionType on a session in
\* ChooseMode (after RestartModeSelection), to Interview or Draft; once
\* questions are generated or draft messages are collected it never changes.
C8_ModeChangedOnlyAtChooseMode ==
    last.before.type # Null /\ session.type # last.before.type =>
        /\ last.op = "SetSessionType"
        /\ last.before.status = SessionStatusChooseMode
        /\ session.type \in SessionTypes
        /\ iterations = <<>>
        /\ sessionMessages = 0

\* an Interview session was switched to Draft
C8_Witness ==
    /\ last.op = "SetSessionType"
    /\ last.before.type = SessionTypeInterview
    /\ session.type = SessionTypeDraft

(***************************************************************************)
(* Answering                                                               *)
(***************************************************************************)
\* currentIteration finds nothing left to answer in db: the iteration under
\* the pointer (if any) does not end in an Unanswered question and no
\* iteration follows it
NoIterationRemains(db) ==
    LET current == db.session.currentIteration
    IN  /\ HasIteration(db.iterations, current) =>
                LET questions == IterationByNumber(db.iterations, current).questions
                IN  \/ Len(questions) = 0
                    \/ questions[Len(questions)].status # AnswerStatusUnanswered
        /\ ~HasIteration(db.iterations, current + 1)

\* no Unanswered or Skipped question in its
NothingUnanswered(its) ==
    \A id \in QuestionIDs(its) : QuestionByID(its, id).status = AnswerStatusAnswered

\* its with the status of question id set to st, every other question as it is
WithStatus(its, id, st) ==
    [ i \in DOMAIN its |->
        [its[i] EXCEPT !.questions =
            [ k \in DOMAIN @ |->
                IF <<its[i].number, k>> = id THEN [@[k] EXCEPT !.status = st]
                ELSE @[k] ]] ]

\* the status of question id, Null when the session has no such question
StatusOf(its, id) ==
    IF \E i \in DOMAIN its : its[i].number = id[1] /\ id[2] \in DOMAIN its[i].questions
    THEN LET i == CHOOSE j \in DOMAIN its : its[j].number = id[1]
         IN  its[i].questions[id[2]].status
    ELSE Null

StatusesOf(its) ==
    [ i \in DOMAIN its |-> [ k \in DOMAIN its[i].questions |-> its[i].questions[k].status ] ]

\* C9 as stated: submitAnswer on a WaitingForAnswers session marks the
\* question Answered and moves the session to Validating exactly when, with
\* the answer recorded, no iteration remains and no Unanswered or Skipped
\* question remains; otherwise the status stays WaitingForAnswers.
C9_SubmitAnswerContract ==
    (session.status = SessionStatusWaitingForAnswers /\ iterations # <<>>) =>
        \A questionID \in RequestQuestionIDs, answer \in AnswerTexts :
            LET recorded == [DB EXCEPT !.iterations =
                                WithStatus(@, questionID, AnswerStatusAnswered)]
                out == SubmitTextAnswer(DB, questionID, answer)
            IN  /\ StatusesOf(out.db.iterations) = StatusesOf(recorded.iterations)
                /\ out.db.session.status =
                        IF NoIterationRemains(recorded) /\ NothingUnanswered(recorded.iterations)
                        THEN SessionStatusValidating
                        ELSE SessionStatusWaitingForAnswers

\* C9, amended: submitAnswer on a WaitingForAnswers session marks the question
\* Answered; when it returns without error it moves the session to Validating
\* exactly when, with the answer recorded, no iteration remains and no
\* Unanswered or Skipped question remains, and otherwise leaves it in
\* WaitingForAnswers; when it fails (the session has no current iteration, or
\* the iteration it turns to has no questions) the status stays
\* WaitingForAnswers.
C9_SuccessfulSubmitAnswer ==
    session.status = SessionStatusWaitingForAnswers =>
        \A questionID \in RequestQuestionIDs, answer \in AnswerTexts :
            LET recorded == [DB EXCEPT !.iterations =
                                WithStatus(@, questionID, AnswerStatusAnswered)]
                out == SubmitTextAnswer(DB, questionID, answer)
            IN  /\ StatusesOf(out.db.iterations) = StatusesOf(recorded.iterations)
                /\ out.err = Ok =>
                        out.db.session.status =
                            IF NoIterationRemains(recorded)
                               /\ NothingUnanswered(recorded.iterations)
                            THEN SessionStatusValidating
                            ELSE SessionStatusWaitingForAnswers
                /\ out.err # Ok => out.db.session.status = SessionStatusWaitingForAnswers

\* the last answer was submitted and the session moved to Validating
C9_Witness ==
    /\ last.op = "SubmitTextAnswer"
    /\ last.err = Ok
    /\ last.before.status = SessionStatusWaitingForAnswers
    /\ session.status = SessionStatusValidating
    /\ Len(iterations) > 1

\* C10 as stated: skipAnswer marks the question Skipped and moves the session
\* to Validating only if no iteration remains and no Unanswered or Skipped
\* question remains.
C10_SkipAnswerContract ==
    session.status = SessionStatusWaitingForAnswers =>
        \A questionID \in RequestQuestionIDs :
            LET skipped == [DB EXCEPT !.iterations =
                                WithStatus(@, questionID, AnswerStatusSkiped)]
                out == SkipAnswer(DB, questionID)
            IN  /\ StatusesOf(out.db.iterations) = StatusesOf(skipped.iterations)
                /\ out.db.session.status = SessionStatusValidating =>
                        /\ NoIterationRemains(skipped)
                        /\ NothingUnanswered(skipped.iterations)

\* C10, amended: skipAnswer requires WaitingForAnswers; it marks the question
\* Skipped if it is Unanswered and leaves an Answered or Skipped question as
\* it is; when it returns without error it moves the session to Validating
\* exactly when no iteration remains, whether or not Unanswered or Skipped
\* questions remain; when it fails the status stays WaitingForAnswers.
C10_SkipAnswerAsImplemented ==
    /\ last.op = "SkipAnswer" => last.before.status = SessionStatusWaitingForAnswers
    /\ session.status = SessionStatusWaitingForAnswers =>
        \A questionID \in RequestQuestionIDs :
            LET st == StatusOf(iterations, questionID)
                skipped == [DB EXCEPT !.iterations =
                                WithStatus(@, questionID,
                                    IF st = AnswerStatusUnanswered
                                    THEN AnswerStatusSkiped ELSE st)]
                out == SkipAnswer(DB, questionID)
            IN  /\ StatusesOf(out.db.iterations) = StatusesOf(skipped.iterations)
                /\ out.err = Ok =>
                        out.db.session.status =
                            IF NoIterationRemains(skipped) THEN SessionStatusValidating
                            ELSE SessionStatusWaitingForAnswers
                /\ out.err # Ok => out.db.session.status = SessionStatusWaitingForAnswers

\* the only question was skipped and the session moved to Validating with the
\* skipped question left
C10_Witness ==
    /\ last.op = "SkipAnswer"
    /\ last.err = Ok
    /\ session.status = SessionStatusValidating
    /\ ~NothingUnanswered(iterations)

(***************************************************************************)
(* SpecConc: two request tasks on one session.  Every step is one database *)
(* statement or one gateway call of ValidateAnswers, ValidateDraftMessages,*)
(* GenerateSummary or LoadSessionQuestions; each task runs one operation.  *)
(***************************************************************************)
ConcOps == { "ValidateAnswers", "ValidateDraftMessages", "GenerateSummary",
             "LoadSessionQuestions", "CancelSession" }

\* sessions the tasks start on: an Interview session whose only question is
\* answered, in Validating or GeneratingRequirements; an Interview session in
\* InterviewInfo; a Draft session with one message in DraftCollecting
ConcStart ==
    LET base == [ status |-> NoSession, type |-> SessionTypeInterview, userGoal |-> "goal",
                  projectContext |-> ManualContext, projectID |-> Null,
                  currentIteration |-> 1, result |-> Null ]
        answered == << [ number |-> 1, title |-> GeneratedTitle,
                         questions |-> << [ status |-> AnswerStatusAnswered,
                                            answer |-> "answer" ] >> ] >>
    IN  { [ session |-> [base EXCEPT !.status = SessionStatusValidating],
            iterations |-> answered, sessionMessages |-> 0 ],
          [ session |-> [base EXCEPT !.status = SessionStatusGeneratingRequirements],
            iterations |-> answered, sessionMessages |-> 0 ],
          [ session |-> [base EXCEPT !.status = SessionStatusInterviewInfo],
            iterations |-> <<>>, sessionMessages |-> 0 ],
          [ session |-> [base EXCEPT !.status = SessionStatusDraftCollecting,
                                     !.type = SessionTypeDraft],
            iterations |-> <<>>, sessionMessages |-> 1 ] }

InitConc ==
    /\ \E start \in ConcStart :
            /\ session = start.session
            /\ iterations = start.iterations
            /\ sessionMessages = start.sessionMessages
            /\ draftMessageCount = start.sessionMessages
    /\ tgLinked = FALSE
    /\ stateData = InitialStateData
    /\ now = 0
    /\ nav = NoNavigation
    /\ callbacks = [ t \in Tasks |-> IdleCallback ]
    /\ limits = NoLimits
    /\ updates = [ t \in Tasks |-> IdleUpdate ]
    /\ events = NoEvents
    /\ otherQuestion = OtherUnanswered
    /\ last = NoOperation
    /\ tasks = [ t \in Tasks |-> IdleTask ]

\* the statement of task t leaves the tables as in db and the task as task
Statement(t, db, task) ==
    /\ session' = db.session
    /\ iterations' = db.iterations
    /\ sessionMessages' = db.sessionMessages
    /\ tasks' = [tasks EXCEPT ![t] = task]
    /\ UNCHANGED <<tgLinked, draftMessageCount, chatVars, last>>

Finished(task, err) == [task EXCEPT !.pc = "done", !.err = err]

\* the error the guard and the preconditions of op return on db (Ok: none)
GuardOf(op, db) ==
    LET out == CASE op = "ValidateAnswers" ->
                        ValidateAnswers(db, [err |-> TRUE, questions |-> 0])
                 [] op = "ValidateDraftMessages" ->
                        ValidateDraftMessages([db EXCEPT !.iterations = <<>>, !.sessionMessages = 1],
                                              "found", [err |-> TRUE, questions |-> 0])
                 [] op = "GenerateSummary" ->
                        GenerateSummary(db, [err |-> TRUE, text |-> Null])
                 [] op = "LoadSessionQuestions" ->
                        LoadSessionQuestions(db, "found", [err |-> TRUE, blocks |-> <<>>])
                 [] op = "CancelSession" ->
                        CancelSession(db)
    IN  IF out.err \in { ErrNotFound, ErrWrongStatus, ErrPrecondition } THEN out.err ELSE Ok

\* GetSessionByID, the status guard and the goal / context preconditions;
\* CancelSession goes on to its status write
TaskGuard(t) ==
    /\ tasks[t].pc = "idle"
    /\ \E op \in ConcOps :
        LET task == [tasks[t] EXCEPT !.op = op, !.seen = session.status]
        IN  Statement(t, DB,
                IF GuardOf(op, DB) # Ok THEN Finished(task, GuardOf(op, DB))
                ELSE IF op \in { "ValidateAnswers", "ValidateDraftMessages" }
                THEN [task EXCEPT !.pc = "list"]
                ELSE IF op = "CancelSession"
                THEN [task EXCEPT !.pc = "status", !.target = SessionStatusCanceled]
                ELSE [task EXCEPT !.pc = "llm"])

\* ListIterationsBySession and the search for the follow-up block
TaskListIterations(t) ==
    /\ tasks[t].pc = "list"
    /\ Statement(t, DB,
            IF hasAdditionalBlock(iterations)
            THEN [tasks[t] EXCEPT !.pc = "status", !.target = SessionStatusGeneratingRequirements]
            ELSE IF tasks[t].op = "ValidateDraftMessages"
            THEN [tasks[t] EXCEPT !.pc = "validating"]
            ELSE [tasks[t] EXCEPT !.pc = "llm"])

\* ValidateDraftMessages: UpdateSessionStatus(VALIDATING) ahead of the checks
TaskSetValidating(t) ==
    /\ tasks[t].pc = "validating"
    /\ Statement(t, UpdateSessionStatus(DB, SessionStatusValidating),
                 [tasks[t] EXCEPT !.pc = "messages"])

\* ValidateDraftMessages: GetSessionMessages
TaskGetMessages(t) ==
    /\ tasks[t].pc = "messages"
    /\ Statement(t, DB,
            IF sessionMessages = 0 THEN Finished(tasks[t], ErrPrecondition)
            ELSE [tasks[t] EXCEPT !.pc = "llm"])

\* the call of the LLM gateway
TaskLlm(t) ==
    /\ tasks[t].pc = "llm"
    /\ \/ /\ tasks[t].op \in { "ValidateAnswers", "ValidateDraftMessages" }
          /\ \E llm \in ValidateResponses :
                Statement(t, DB,
                    IF llm.err THEN Finished(tasks[t], ErrGateway)
                    ELSE IF llm.questions = 0
                    THEN [tasks[t] EXCEPT !.pc = "status",
                                          !.target = SessionStatusGeneratingRequirements]
                    ELSE [tasks[t] EXCEPT !.pc = "max", !.blocks = <<llm.questions>>,
                                          !.title = AdditionalTitle])
       \/ /\ tasks[t].op = "GenerateSummary"
          /\ \E llm \in SummaryResponses :
                Statement(t, DB,
                    IF llm.err THEN Finished(tasks[t], ErrGateway)
                    ELSE [tasks[t] EXCEPT !.pc = "result", !.text = llm.text])
       \/ /\ tasks[t].op = "LoadSessionQuestions"
          /\ \E llm \in GenerateQuestionsResponses :
                Statement(t, DB,
                    IF generateQuestionsBlocks(llm) # Ok
                    THEN Finished(tasks[t], generateQuestionsBlocks(llm))
                    ELSE [tasks[t] EXCEPT !.pc = "max", !.blocks = llm.blocks,
                                          !.title = GeneratedTitle])

\* saveQuestionsToDatabase: GetMaxIterationNumber
TaskGetMax(t) ==
    /\ tasks[t].pc = "max"
    /\ Statement(t, DB,
            [tasks[t] EXCEPT !.pc = "create", !.max = GetMaxIterationNumber(iterations),
                             !.idx = 1])

\* the task after block idx is saved: the next block, or the status write
AfterBlock(task) ==
    IF task.idx < Len(task.blocks)
    THEN [task EXCEPT !.pc = "create", !.idx = @ + 1]
    ELSE [task EXCEPT !.pc = "status", !.target = SessionStatusWaitingForAnswers]

\* saveQuestionsToDatabase: CreateIteration of block idx
TaskCreateIteration(t) ==
    /\ tasks[t].pc = "create"
    /\ Len(iterations) < MaxIterations
    /\ LET task == tasks[t]
           iterationNumber == task.max + task.idx
       IN  IF CreateIterationFails(iterations, iterationNumber)
           THEN Statement(t, DB, Finished(task, ErrInternal))
           ELSE Statement(t, CreateIteration(DB, iterationNumber, task.title),
                    IF task.blocks[task.idx] = 0 THEN AfterBlock(task)
                    ELSE [task EXCEPT !.pc = "questions", !.left = task.blocks[task.idx]])

\* saveQuestionsToDatabase: CreateQuestion
TaskCreateQuestion(t) ==
    /\ tasks[t].pc = "questions"
    /\ LET task == tasks[t]
       IN  Statement(t, CreateQuestion(DB, task.max + task.idx, AnswerStatusUnanswered),
                IF task.left = 1 THEN AfterBlock(task)
                ELSE [task EXCEPT !.left = @ - 1])

\* UpdateSessionStatus(target); LoadSessionQuestions issues it twice
TaskUpdateStatus(t) ==
    /\ tasks[t].pc = "status"
    /\ Statement(t, UpdateSessionStatus(DB, tasks[t].target),
            IF tasks[t].op = "LoadSessionQuestions" THEN [tasks[t] EXCEPT !.pc = "status again"]
            ELSE Finished(tasks[t], Ok))

TaskUpdateStatusAgain(t) ==
    /\ tasks[t].pc = "status again"
    /\ Statement(t, UpdateSessionStatus(DB, tasks[t].target), Finished(tasks[t], Ok))

\* GenerateSummary: UpdateSessionResult(DONE, result)
TaskUpdateResult(t) ==
    /\ tasks[t].pc = "result"
    /\ Statement(t, UpdateSessionResult(DB, SessionStatusDone, tasks[t].text),
                 Finished(tasks[t], Ok))

NextConc ==
    \E t \in Tasks :
        \/ TaskGuard(t)
        \/ TaskListIterations(t)
        \/ TaskSetValidating(t)
        \/ TaskGetMessages(t)
        \/ TaskLlm(t)
        \/ TaskGetMax(t)
        \/ TaskCreateIteration(t)
        \/ TaskCreateQuestion(t)
        \/ TaskUpdateStatus(t)
        \/ TaskUpdateStatusAgain(t)
        \/ TaskUpdateResult(t)

SpecConc == InitConc /\ [][NextConc]_vars

\* C3: of two tasks that attempt the same status transition (the same
\* operation, its guard passed on the same status), at most one succeeds.
C3_AtMostOneSucceeds ==
    \A t1, t2 \in Tasks :
        (/\ t1 # t2
         /\ tasks[t1].pc = "done" /\ tasks[t2].pc = "done"
         /\ tasks[t1].op = tasks[t2].op
         /\ tasks[t1].seen = tasks[t2].seen
         /\ tasks[t1].err = Ok)
            => tasks[t2].err # Ok

\* C5: after any interleaving of ValidateAnswers and ValidateDraftMessages
\* calls the session has at most one iteration with the follow-up title.
C5_AtMostOneAdditionalBlock ==
    Cardinality({ i \in DOMAIN iterations : iterations[i].title = AdditionalTitle }) <= 1

(***************************************************************************)
(* Validation, numbering of iterations and questions, the iteration        *)
(* pointer, question statuses and answers.                                 *)
(***************************************************************************)
\* the gateway answer that is a failure
GatewayFailure == [err |-> TRUE, questions |-> 0]

\* the answers of the gateway that are not failures
ValidateAnswersReturned == { llm \in ValidateResponses : ~llm.err }

\* the iteration a follow-up block of n questions is persisted as
AdditionalIteration(its, n) ==
    [ number |-> GetMaxIterationNumber(its) + 1, title |-> AdditionalTitle,
      questions |-> [ k \in 1..n |-> [status |-> AnswerStatusUnanswered, answer |-> Null] ] ]

\* out is the outcome the design gives a validation whose gateway call
\* returned llm
ValidationOutcome(out, llm) ==
    /\ out.err = Ok
    /\ IF llm.questions = 0
       THEN /\ out.db.iterations = iterations
            /\ out.db.session.status = SessionStatusGeneratingRequirements
       ELSE /\ out.db.iterations =
                    Append(iterations, AdditionalIteration(iterations, llm.questions))
            /\ out.db.session.status = SessionStatusWaitingForAnswers

\* C11: when ValidateAnswers or ValidateDraftMessages reaches its gateway call
\* (the call with a failing gateway returns the gateway error) and the gateway
\* returns zero follow-up questions, the session moves to
\* GENERATING_REQUIREMENTS and the iterations are unchanged; when it returns
\* one or more, exactly one iteration with the follow-up title holding that
\* many Unanswered questions is appended and the session moves to
\* WAITING_FOR_ANSWERS.
C11_ValidationOutcome ==
    /\ ValidateAnswers(DB, GatewayFailure).err = ErrGateway =>
            \A llm \in ValidateAnswersReturned :
                ValidationOutcome(ValidateAnswers(DB, llm), llm)
    /\ \A project \in ProjectLookups :
            ValidateDraftMessages(DB, project, GatewayFailure).err = ErrGateway =>
                \A llm \in ValidateAnswersReturned :
                    ValidationOutcome(ValidateDraftMessages(DB, project, llm), llm)

\* ValidateAnswers has just persisted a follow-up iteration
C11_Witness ==
    /\ last.op = "ValidateAnswers" /\ last.err = Ok /\ last.ret # 0
    /\ session.status = SessionStatusWaitingForAnswers
    /\ hasAdditionalBlock(iterations)

\* iteration numbers strictly increase in creation order (so no two are equal)
NumbersIncrease(its) ==
    \A i, j \in DOMAIN its : i < j => its[i].number < its[j].number

\* task t ended on a CreateIteration that hit unique_session_iteration
FailedOnCollision(t) ==
    /\ tasks[t].pc = "done"
    /\ tasks[t].err = ErrInternal
    /\ tasks[t].idx >= 1

\* C12: after any sequence of saveQuestionsToDatabase calls, overlapping ones
\* included, no two iterations of the session share a number, the numbers
\* increase strictly in creation order, and no call failed on an
\* iteration-number collision.
C12_NoCollision ==
    /\ NumbersIncrease(iterations)
    /\ \A t \in Tasks : ~FailedOnCollision(t)

\* block lists handed to saveQuestionsToDatabase: up to MaxBlocks + 1 blocks
\* of up to MaxQuestions + 1 questions each
BlockLists == UNION { [1..k -> 0..(MaxQuestions + 1)] : k \in 0..(MaxBlocks + 1) }

\* n questions numbered 1..n, every one Unanswered and without an answer
NewQuestions(n) == [ q \in 1..n |-> [status |-> AnswerStatusUnanswered, answer |-> Null] ]

\* C13: saveQuestionsToDatabase given k blocks for a session whose highest
\* iteration number is m (0 without iterations) succeeds and appends, in
\* block order, iterations numbered m+1 .. m+k, each holding the questions of
\* its block numbered 1..n and Unanswered; it changes nothing else.
C13_SaveNumbersFromMax ==
    \A blocks \in BlockLists :
        LET m == GetMaxIterationNumber(iterations)
            out == saveQuestionsToDatabase(DB, blocks, GeneratedTitles(blocks))
        IN  /\ out.err = Ok
            /\ out.db.iterations = iterations \o
                    [ i \in 1..Len(blocks) |->
                        [ number |-> m + i, title |-> GeneratedTitle,
                          questions |-> NewQuestions(blocks[i]) ] ]
            /\ out.db.session = session

\* a block was saved for a session that already held an iteration
C13_Witness ==
    /\ last.op \in { "ValidateAnswers", "ValidateDraftMessages" }
    /\ last.err = Ok
    /\ Len(iterations) >= 2
    /\ last.ret = iterations[Len(iterations)].number
    /\ last.ret = iterations[Len(iterations) - 1].number + 1

\* the iteration numbered n exists and its last question is Unanswered
LastQuestionUnanswered(its, n) ==
    /\ HasIteration(its, n)
    /\ LET questions == IterationByNumber(its, n).questions
       IN  /\ Len(questions) > 0
           /\ questions[Len(questions)].status = AnswerStatusUnanswered

\* the iteration numbered n exists and holds no question
EmptyIteration(its, n) ==
    HasIteration(its, n) /\ Len(IterationByNumber(its, n).questions) = 0

\* C14: on a session that waits for answers and whose pointer references an
\* iteration, getCurrentIteration returns that iteration when its last
\* question is Unanswered; otherwise, if iteration pointer+1 exists, it
\* advances the pointer by one and returns that iteration; otherwise it
\* returns none and leaves the pointer unchanged.
C14_CurrentIterationContract ==
    (/\ session.status = SessionStatusWaitingForAnswers
     /\ HasIteration(iterations, session.currentIteration)) =>
        LET pointer == session.currentIteration
            out == getCurrentIteration(DB)
        IN  /\ out.err = Ok
            /\ out.db.iterations = iterations
            /\ IF LastQuestionUnanswered(iterations, pointer)
               THEN out.ret = pointer /\ out.db.session.currentIteration = pointer
               ELSE IF HasIteration(iterations, pointer + 1)
               THEN out.ret = pointer + 1 /\ out.db.session.currentIteration = pointer + 1
               ELSE out.ret = 0 /\ out.db.session.currentIteration = pointer

\* C14, amended: the contract of C14 holds when the iteration under the
\* pointer exists and holds a question and the iteration the pointer moves to
\* holds a question; when the iteration under the pointer is missing or
\* empty, getCurrentIteration fails and leaves the pointer; when the next
\* iteration exists and is empty, it advances the pointer and fails.  It
\* never changes anything but the pointer.
C14_CurrentIterationAsImplemented ==
    session.status # NoSession =>
        LET pointer == session.currentIteration
            out == getCurrentIteration(DB)
        IN  /\ out.db.iterations = iterations
            /\ out.db.session = [session EXCEPT !.currentIteration = out.db.session.currentIteration]
            /\ IF ~HasIteration(iterations, pointer) \/ EmptyIteration(iterations, pointer)
               THEN /\ out.err = ErrInternal
                    /\ out.db.session.currentIteration = pointer
               ELSE IF LastQuestionUnanswered(iterations, pointer)
               THEN /\ out.err = Ok /\ out.ret = pointer
                    /\ out.db.session.currentIteration = pointer
               ELSE IF ~HasIteration(iterations, pointer + 1)
               THEN /\ out.err = Ok /\ out.ret = 0
                    /\ out.db.session.currentIteration = pointer
               ELSE /\ out.db.session.currentIteration = pointer + 1
                    /\ IF EmptyIteration(iterations, pointer + 1)
                       THEN out.err = ErrInternal
                       ELSE out.err = Ok /\ out.ret = pointer + 1

\* an answer or a skip has just moved the pointer to the second iteration
C14_Witness ==
    /\ last.op \in { "SubmitTextAnswer", "SkipAnswer" }
    /\ last.err = Ok
    /\ last.ret = 2
    /\ session.currentIteration = 2

\* status changes a question may undergo
QuestionStatusChanges ==
    { <<AnswerStatusUnanswered, AnswerStatusAnswered>>,
      <<AnswerStatusUnanswered, AnswerStatusSkiped>>,
      <<AnswerStatusSkiped, AnswerStatusAnswered>> }

\* C15: in every step, every question of the session keeps its status or
\* changes it Unanswered -> Answered, Unanswered -> Skipped or Skipped ->
\* Answered; in particular an Answered question stays Answered.
C15_QuestionStatusMonotonic ==
    [][ \A id \in QuestionIDs(iterations) :
            /\ id \in QuestionIDs(iterations')
            /\ \/ QuestionByID(iterations', id).status = QuestionByID(iterations, id).status
               \/ << QuestionByID(iterations, id).status,
                     QuestionByID(iterations', id).status >> \in QuestionStatusChanges ]_vars

\* a skip was requested for a question that is Answered, and it still is
C15_Witness ==
    /\ last.op = "SkipAnswer"
    /\ last.questionID \in QuestionIDs(iterations)
    /\ QuestionByID(iterations, last.questionID).status = AnswerStatusAnswered

\* C16: in every step, every question that has a non-empty answer text still
\* has a non-empty answer text afterwards.
C16_AnswerNeverErased ==
    [][ \A id \in QuestionIDs(iterations) :
            QuestionByID(iterations, id).answer # Null =>
                /\ id \in QuestionIDs(iterations')
                /\ QuestionByID(iterations', id).answer # Null ]_vars

\* the replay of skipped questions skipped a question that holds an answer
C16_Witness ==
    /\ last.op = "SkipSkipedQuestion"
    /\ last.questionID \in QuestionIDs(iterations)
    /\ QuestionByID(iterations, last.questionID).answer # Null

\* the GenerateQuestions answer that is a failure: an operation returns the
\* gateway error on it exactly when it calls the gateway
GenerateQuestionsFailure == [err |-> TRUE, blocks |-> <<>>]

\* mode, goal and project context of the session row s are set
ModeGoalContextSet(s) ==
    /\ s.type \in SessionTypes
    /\ s.userGoal # Null
    /\ s.projectContext # Null

\* C17: whenever LoadSessionQuestions (multi-step path) or StartHTTPSession
\* (one-shot path, on a request that passed ValidateStartSession) calls the
\* gateway's GenerateQuestions, the mode, the goal and the project context of
\* the session are set.  StartHTTPSession calls the gateway in every call
\* that inserted its session row, that is in every call last records.
C17_GenerationNeedsModeGoalContext ==
    /\ \A project \in ProjectLookups :
            LET out == LoadSessionQuestions(DB, project, GenerateQuestionsFailure)
            IN  out.err = ErrGateway => ModeGoalContextSet(out.db.session)
    /\ last.op = "StartHTTPSession" => ModeGoalContextSet(session)

\* C18: on a session of any status, CancelSession succeeds and leaves the
\* session as it was but with status CANCELED when the status is neither DONE
\* nor CANCELED, and fails changing nothing when it is DONE or CANCELED; a
\* cancel that happened started from a status other than DONE and CANCELED.
C18_CancelSessionContract ==
    /\ session.status # NoSession =>
        \A status \in SessionStatuses :
            LET db == [DB EXCEPT !.session.status = status]
                out == CancelSession(db)
            IN  IF status \in { SessionStatusDone, SessionStatusCanceled }
                THEN out.err # Ok /\ out.db = db
                ELSE /\ out.err = Ok
                     /\ out.db.session = [db.session EXCEPT !.status = SessionStatusCanceled]
                     /\ out.db.iterations = db.iterations
                     /\ out.db.sessionMessages = db.sessionMessages
    /\ last.op = "CancelSession" =>
        /\ last.err = Ok
        /\ session.status = SessionStatusCanceled
        /\ last.before.status \notin { SessionStatusDone, SessionStatusCanceled }

\* a session that waited for answers has just been canceled
C18_Witness ==
    /\ last.op = "CancelSession"
    /\ last.before.status = SessionStatusWaitingForAnswers
    /\ session.status = SessionStatusCanceled

(***************************************************************************)
(* SpecDraft: the chat user sends draft messages; the bot handles every    *)
(* update in a goroutine of its own (Bot.processUpdates), so two runs of   *)
(* DraftHandler.Handle interleave at their reads and writes of the chat    *)
(* state and of the database.                                              *)
(***************************************************************************)
\* messages the session may hold before the model stops adding
DraftMessagesModelled == MaxMessages + 2

\* a Draft session that collects messages and holds n of them, all counted
InitDraft ==
    /\ session = [ status |-> SessionStatusDraftCollecting, type |-> SessionTypeDraft,
                   userGoal |-> "goal", projectContext |-> ManualContext,
                   projectID |-> Null, currentIteration |-> 1, result |-> Null ]
    /\ iterations = <<>>
    /\ \E n \in 0..MaxMessages : sessionMessages = n /\ draftMessageCount = n
    /\ tgLinked = TRUE
    /\ stateData = InitialStateData
    /\ now = 0
    /\ nav = NoNavigation
    /\ callbacks = [ t \in Tasks |-> IdleCallback ]
    /\ limits = NoLimits
    /\ updates = [ t \in Tasks |-> IdleUpdate ]
    /\ events = NoEvents
    /\ otherQuestion = OtherUnanswered
    /\ last = NoOperation
    /\ tasks = [ t \in Tasks |-> IdleTask ]

\* Bot.handleMessage loads the state data; DraftHandler.Handle rejects the
\* message when the loaded counter has reached the cap
DraftRead(t) ==
    /\ tasks[t].pc = "idle"
    /\ LET task == [tasks[t] EXCEPT !.op = "AddDraftMessage", !.seen = session.status,
                                    !.count = draftMessageCount]
       IN  Statement(t, DB,
                IF DraftLimitReached(task.count) THEN Finished(task, ErrPrecondition)
                ELSE [task EXCEPT !.pc = "add"])

\* sessionUC.AddDraftMessage
DraftCreate(t) ==
    /\ tasks[t].pc = "add"
    /\ sessionMessages < DraftMessagesModelled
    /\ LET out == AddDraftMessage(DB)
       IN  Statement(t, out.db,
                IF out.err # Ok THEN Finished(tasks[t], out.err)
                ELSE [tasks[t] EXCEPT !.pc = "count"])

\* stateData.DraftMessageCount++ on the copy loaded, then UpdateStateData
DraftCount(t) ==
    /\ tasks[t].pc = "count"
    /\ draftMessageCount' = tasks[t].count + 1
    /\ tasks' = [tasks EXCEPT ![t] = Finished(tasks[t], Ok)]
    /\ UNCHANGED <<session, iterations, sessionMessages, tgLinked, chatVars, last>>

\* the goroutine ends; the next update of the user gets a new one
DraftDone(t) ==
    /\ tasks[t].pc = "done"
    /\ tasks' = [tasks EXCEPT ![t] = IdleTask]
    /\ UNCHANGED <<session, iterations, sessionMessages, tgLinked, draftMessageCount, chatVars, last>>

NextDraft ==
    \E t \in Tasks :
        \/ DraftRead(t)
        \/ DraftCreate(t)
        \/ DraftCount(t)
        \/ DraftDone(t)

SpecDraft == InitDraft /\ [][NextDraft]_vars

\* C19: after any interleaving of add-draft-message attempts the session holds
\* at most the configured maximum of draft messages, and no attempt is about
\* to persist a message while the session already holds the maximum.
C19_DraftMessagesCapped ==
    /\ sessionMessages <= MaxMessages
    /\ \A t \in Tasks : tasks[t].pc = "add" => sessionMessages < MaxMessages

\* the handler stopping after the validation, without the summary
HandlerSubmitTextAnswerWithoutSummary(db, questionID, answer, validate, summary) ==
    LET iteration == SubmitTextAnswer(db, questionID, answer)
    IN  IF iteration.err # Ok \/ iteration.ret # 0 THEN iteration
        ELSE ValidateAnswers(iteration.db, validate)

\* Handler.SubmitTextAnswer of the HTTP front-end and QuestionsHandler.Handle
\* of the chat front-end: the answer is submitted; when no iteration is
\* returned the answers are validated; when that returns no iteration either
\* the summary is generated.  validate and summary are the gateway's answers.
HandlerSubmitTextAnswer(db, questionID, answer, validate, summary) ==
    LET iteration == SubmitTextAnswer(db, questionID, answer)
    IN  IF iteration.err # Ok \/ iteration.ret # 0 THEN iteration
        ELSE LET validated == ValidateAnswers(iteration.db, validate)
             IN  IF validated.err # Ok \/ validated.ret # 0 THEN validated
                 ELSE GenerateSummary(validated.db, summary)

(***************************************************************************)
(* SpecInterview: the end-to-end Interview scenario.  The session has its  *)
(* goal and a manual context and is in INTERVIEW_INFO; question generation *)
(* returns blocks, the user answers questions that are Unanswered, the     *)
(* validation returns no follow-up question and the summary returns text.  *)
(* Fairness: the questions are requested and the user goes on answering    *)
(* while a question is Unanswered.                                         *)
(***************************************************************************)
InitInterview ==
    /\ session = [ status |-> SessionStatusInterviewInfo, type |-> SessionTypeInterview,
                   userGoal |-> "goal", projectContext |-> ManualContext,
                   projectID |-> Null, currentIteration |-> 1, result |-> Null ]
    /\ iterations = <<>>
    /\ sessionMessages = 0
    /\ tgLinked = FALSE
    /\ draftMessageCount = 0
    /\ stateData = InitialStateData
    /\ now = 0
    /\ nav = NoNavigation
    /\ callbacks = [ t \in Tasks |-> IdleCallback ]
    /\ limits = NoLimits
    /\ updates = [ t \in Tasks |-> IdleUpdate ]
    /\ events = NoEvents
    /\ otherQuestion = OtherUnanswered
    /\ last = NoOperation
    /\ tasks = [ t \in Tasks |-> IdleTask ]

\* the most blocks, and the most questions of a block, the scenario's question
\* generation returns
InterviewBlocks == 2

InterviewQuestions == 2

\* what the scenario's question generation returns: at least one block, each
\* block given by its number of questions
InterviewBlockLists == UNION { [1..k -> 0..InterviewQuestions] : k \in 1..InterviewBlocks }

\* question generation returns blocks
InterviewLoadQuestions ==
    /\ \E blocks \in InterviewBlockLists :
            \E out \in { LoadSessionQuestions(DB, "found", [err |-> FALSE, blocks |-> blocks]) } :
                Commit("LoadSessionQuestions", NoQuestion, out)
    /\ UNCHANGED <<tgLinked, draftMessageCount, chatVars>>

\* the validation returns no follow-up question
NoFollowUp == [err |-> FALSE, questions |-> 0]

\* the user answers a question that is Unanswered
InterviewAnswer ==
    /\ \E questionID \in QuestionIDs(iterations), answer \in AnswerTexts, text \in Summaries :
            /\ QuestionByID(iterations, questionID).status = AnswerStatusUnanswered
            /\ \E out \in { HandlerSubmitTextAnswer(DB, questionID, answer, NoFollowUp,
                                                   [err |-> FALSE, text |-> text]) } :
                    Commit("SubmitTextAnswer", questionID, out)
    /\ UNCHANGED <<tgLinked, draftMessageCount, chatVars>>

NextInterview == InterviewLoadQuestions \/ InterviewAnswer

SpecInterview ==
    /\ InitInterview
    /\ [][NextInterview]_vars
    /\ WF_vars(InterviewLoadQuestions)
    /\ WF_vars(InterviewAnswer)

\* the session is DONE and holds a result
InterviewDone == session.status = SessionStatusDone /\ session.result # Null

\* an iteration of the session has no question
SomeIterationEmpty == \E i \in DOMAIN iterations : Len(iterations[i].questions) = 0

\* a question is Answered while a question before it (by iteration number,
\* then question number) is Unanswered
AnsweredOutOfOrder ==
    \E a, b \in QuestionIDs(iterations) :
        /\ a[1] < b[1] \/ (a[1] = b[1] /\ a[2] < b[2])
        /\ QuestionByID(iterations, a).status = AnswerStatusUnanswered
        /\ QuestionByID(iterations, b).status = AnswerStatusAnswered

\* C20: in the Interview scenario the session eventually is DONE with a
\* non-empty result.
C20_InterviewReachesDone == <>InterviewDone

\* C20, amended: in the Interview scenario the session eventually is DONE
\* with a non-empty result, provided every generated block holds a question
\* and the user answers the questions in their order.
C20_InterviewReachesDoneInOrder ==
    <>(InterviewDone \/ SomeIterationEmpty \/ AnsweredOutOfOrder)

\* the scenario has reached DONE with every question answered in order
C20_Witness ==
    /\ InterviewDone
    /\ last.op = "SubmitTextAnswer"
    /\ iterations # <<>>
    /\ GetUnansweredQuestions(DB) = {}
    /\ ~SomeIterationEmpty

(***************************************************************************)
(* The navigation layer of the chat front-end.  A handler works on the     *)
(* StateData it loaded and stores it with UpdateStateData; data below is   *)
(* that state data and the outcome of a handler holds the database and the *)
(* state data it leaves, the question it showed (presented, with           *)
(* answerShown the answer text rendered under it), whether the validation  *)
(* path ran (triggered), whether a summary was requested (generated),      *)
(* whether the trigger was answered "still working" (rejected) and whether *)
(* the session was cancelled and the chat state deleted (acted).           *)
(***************************************************************************)
Quiet(db, data, err) ==
    [ db |-> db, data |-> data, err |-> err, presented |-> NoQuestion, answerShown |-> Null,
      triggered |-> FALSE, generated |-> FALSE, rejected |-> FALSE, acted |-> FALSE ]

\* "track question history" that keeps a previous question already recorded
PresentKeepingEarlier(data, questionID) ==
    [data EXCEPT !.previousQuestionID =
                    IF @ = NoQuestion /\ data.currentQuestionID # NoQuestion
                    THEN data.currentQuestionID ELSE @,
                 !.currentQuestionID = questionID]

\* "track question history": the question shown becomes the current one and
\* the one left the previous one
Present(data, questionID) ==
    [data EXCEPT !.previousQuestionID =
                    IF data.currentQuestionID # NoQuestion THEN data.currentQuestionID ELSE @,
                 !.currentQuestionID = questionID]

\* the question is shown and the state data stored
Shown(db, data, questionID) ==
    [Quiet(db, Present(data, questionID), Ok) EXCEPT !.presented = questionID]

\* ORDER BY iteration_number, question_number
IDLess(a, b) == a[1] < b[1] \/ (a[1] = b[1] /\ a[2] < b[2])

RECURSIVE InOrder(_)
InOrder(ids) ==
    IF ids = {} THEN <<>>
    ELSE LET first == CHOOSE a \in ids : \A b \in ids \ { a } : IDLess(a, b)
         IN  <<first>> \o InOrder(ids \ { first })

\* handleValidationAndSummaryCommon: validation; then the first follow-up
\* question, or the summary
handleValidationAndSummaryCommon(db, data, validate, summary) ==
    IF ~GetSessionByID(db) THEN Quiet(db, data, ErrNotFound)
    ELSE LET draft == db.session.type = SessionTypeDraft
             additionalIteration ==
                IF draft THEN ValidateDraftMessages(db, "found", validate)
                ELSE ValidateAnswers(db, validate)
         IN  IF additionalIteration.err # Ok
             THEN [Quiet(additionalIteration.db, data, additionalIteration.err)
                        EXCEPT !.triggered = TRUE]
             ELSE IF additionalIteration.ret # 0
             THEN [Shown(additionalIteration.db, data, <<additionalIteration.ret, 1>>)
                        EXCEPT !.triggered = TRUE]
             ELSE LET finalSession ==
                        IF draft THEN GenerateDraftSummary(additionalIteration.db, "found", summary)
                        ELSE GenerateSummary(additionalIteration.db, summary)
                  IN  [Quiet(finalSession.db, data, finalSession.err)
                            EXCEPT !.triggered = TRUE, !.generated = TRUE]

\* the replay state is cleared
EndReplay(data) ==
    [data EXCEPT !.answeringSkipped = FALSE, !.totalSkippedQuestions = 0,
                 !.currentSkippedQuestionNumber = 0,
                 !.skippedQuestionIDs = <<>>, !.currentSkippedQuestionIndex = 0]

\* the question at the current index of the snapshot is shown
ShowSkipped(db, data) ==
    Shown(db, [data EXCEPT !.answeringSkipped = TRUE],
          data.skippedQuestionIDs[data.currentSkippedQuestionIndex + 1])

\* the index moves on and the position stays
NextInSnapshotKeepingNumber(db, data, validate, summary) ==
    LET moved == [data EXCEPT !.currentSkippedQuestionIndex = @ + 1]
    IN  IF moved.currentSkippedQuestionIndex >= Len(moved.skippedQuestionIDs)
        THEN handleValidationAndSummaryCommon(db, EndReplay(moved), validate, summary)
        ELSE ShowSkipped(db, moved)

\* the index moves on; at the end of the snapshot the replay ends with the
\* validation path
NextInSnapshot(db, data, validate, summary) ==
    LET moved == [data EXCEPT !.currentSkippedQuestionIndex = @ + 1,
                              !.currentSkippedQuestionNumber = @ + 1]
    IN  IF moved.currentSkippedQuestionIndex >= Len(moved.skippedQuestionIDs)
        THEN handleValidationAndSummaryCommon(db, EndReplay(moved), validate, summary)
        ELSE ShowSkipped(db, moved)

\* handleNextSkippedQuestion: takes the snapshot when the state data holds
\* none, otherwise moves on in it
handleNextSkippedQuestion(db, data, validate, summary) ==
    IF Len(data.skippedQuestionIDs) = 0
    THEN LET skippedQuestions == InOrder(GetUnansweredQuestions(db))
         IN  IF Len(skippedQuestions) = 0
             THEN handleValidationAndSummaryCommon(db, EndReplay(data), validate, summary)
             ELSE ShowSkipped(db, [data EXCEPT !.skippedQuestionIDs = skippedQuestions,
                                               !.totalSkippedQuestions = Len(skippedQuestions),
                                               !.currentSkippedQuestionIndex = 0,
                                               !.currentSkippedQuestionNumber = 1])
    ELSE NextInSnapshot(db, data, validate, summary)

\* handleSkipCurrentQuestion: the current question of the replay is skipped
handleSkipCurrentQuestion(db, data, currentQuestionID, validate, summary) ==
    LET skipped == SkipSkipedQuestion(db, currentQuestionID)
    IN  IF skipped.err # Ok THEN Quiet(skipped.db, data, skipped.err)
        ELSE NextInSnapshot(skipped.db, data, validate, summary)

\* question numbers of the iteration that are Unanswered
UnansweredIn(its, n) ==
    { k \in DOMAIN IterationByNumber(its, n).questions :
        IterationByNumber(its, n).questions[k].status = AnswerStatusUnanswered }

\* the regular flow after an answer or a skip: no iteration, or none of its
\* questions Unanswered: the validation path; otherwise its first Unanswered
\* question is shown and the forward stack cleared
ShowNextQuestion(db, data, nextIteration, validate, summary) ==
    IF nextIteration = 0 \/ UnansweredIn(db.iterations, nextIteration) = {}
    THEN handleValidationAndSummaryCommon(db, data, validate, summary)
    ELSE Shown(db, [data EXCEPT !.nextQuestionIDs = <<>>],
               <<nextIteration,
                 CHOOSE k \in UnansweredIn(db.iterations, nextIteration) :
                    \A j \in UnansweredIn(db.iterations, nextIteration) : k <= j>>)

\* QuestionsHandler.Handle with a text message: the answer to the current
\* question is submitted; in the replay the next question of the snapshot
\* follows, otherwise the top of the forward stack or the regular flow
QuestionsHandle(db, data, answer, validate, summary) ==
    IF data.currentQuestionID = NoQuestion THEN Quiet(db, data, ErrPrecondition)
    ELSE LET nextIteration == SubmitTextAnswer(db, data.currentQuestionID, answer)
             checked == IF data.answeringSkipped /\ data.totalSkippedQuestions = 0
                        THEN [data EXCEPT !.answeringSkipped = FALSE] ELSE data
         IN  IF nextIteration.err # Ok THEN Quiet(nextIteration.db, data, nextIteration.err)
             ELSE IF checked.answeringSkipped
             THEN handleNextSkippedQuestion(nextIteration.db,
                        [checked EXCEPT !.nextQuestionIDs = <<>>], validate, summary)
             ELSE IF Len(checked.nextQuestionIDs) > 0
             THEN Shown(nextIteration.db,
                        [checked EXCEPT !.nextQuestionIDs = SubSeq(@, 1, Len(@) - 1)],
                        checked.nextQuestionIDs[Len(checked.nextQuestionIDs)])
             ELSE ShowNextQuestion(nextIteration.db, checked, nextIteration.ret,
                                   validate, summary)

\* CallbackHandler.handleSkipQuestion: questionID is the id the button carries
handleSkipQuestion(db, data, questionID, validate, summary) ==
    IF data.currentQuestionID = NoQuestion THEN Quiet(db, data, ErrPrecondition)
    ELSE IF data.answeringSkipped
    THEN handleSkipCurrentQuestion(db, data, data.currentQuestionID, validate, summary)
    ELSE LET nextIteration == SkipAnswer(db, questionID)
         IN  IF nextIteration.err # Ok THEN Quiet(nextIteration.db, data, nextIteration.err)
             ELSE ShowNextQuestion(nextIteration.db, data, nextIteration.ret, validate, summary)

\* handlePreviousQuestion that leaves the replay index where it is
handlePreviousQuestionKeepingIndex(db, data) ==
    IF data.previousQuestionID = NoQuestion THEN Quiet(db, data, ErrPrecondition)
    ELSE IF data.previousQuestionID \notin QuestionIDs(db.iterations)
    THEN Quiet(db, data, ErrNotFound)
    ELSE [Quiet(db, [data EXCEPT
                        !.nextQuestionIDs = IF data.currentQuestionID # NoQuestion
                                            THEN Append(@, data.currentQuestionID) ELSE @,
                        !.previousQuestionID = NoQuestion,
                        !.currentQuestionID = data.previousQuestionID], Ok)
            EXCEPT !.presented = data.previousQuestionID,
                   !.answerShown = QuestionByID(db.iterations, data.previousQuestionID).answer]

\* handlePreviousQuestion that keeps previousQuestionID
handlePreviousQuestionKeepingPrevious(db, data) ==
    IF data.previousQuestionID = NoQuestion THEN Quiet(db, data, ErrPrecondition)
    ELSE [Quiet(db, [data EXCEPT
                        !.nextQuestionIDs = IF data.currentQuestionID # NoQuestion
                                            THEN Append(@, data.currentQuestionID) ELSE @,
                        !.currentQuestionID = data.previousQuestionID], Ok)
            EXCEPT !.presented = data.previousQuestionID,
                   !.answerShown = QuestionByID(db.iterations, data.previousQuestionID).answer]

\* CallbackHandler.handlePreviousQuestion: without a previous question a
\* notice and nothing else; otherwise the question left goes onto the forward
\* stack, the previous question becomes current and is shown with its answer,
\* and in the replay the index steps back
handlePreviousQuestion(db, data) ==
    IF data.previousQuestionID = NoQuestion THEN Quiet(db, data, ErrPrecondition)
    ELSE IF data.previousQuestionID \notin QuestionIDs(db.iterations)
    THEN Quiet(db, data, ErrNotFound)
    ELSE [Quiet(db, [data EXCEPT
                        !.nextQuestionIDs = IF data.currentQuestionID # NoQuestion
                                            THEN Append(@, data.currentQuestionID) ELSE @,
                        !.previousQuestionID = NoQuestion,
                        !.currentSkippedQuestionIndex =
                            IF data.answeringSkipped /\ @ > 0 THEN @ - 1 ELSE @,
                        !.currentSkippedQuestionNumber =
                            IF data.answeringSkipped /\ @ > 1 THEN @ - 1 ELSE @,
                        !.currentQuestionID = data.previousQuestionID], Ok)
            EXCEPT !.presented = data.previousQuestionID,
                   !.answerShown = QuestionByID(db.iterations, data.previousQuestionID).answer]

\* CallbackHandler.handleAnswerSkipped: without a Skipped or Unanswered
\* question a notice and nothing else; otherwise the session waits for
\* answers again, the snapshot is taken and its first question shown, with
\* the history and the forward stack cleared
handleAnswerSkippedReplay(db, data) ==
    LET unanswered == InOrder(GetUnansweredQuestions(db))
        waiting == handleAnswerSkipped(db)
    IN  IF waiting.err # Ok THEN Quiet(waiting.db, data, waiting.err)
        ELSE IF Len(unanswered) = 0 THEN Quiet(waiting.db, data, Ok)
        ELSE [Quiet(waiting.db,
                    [data EXCEPT !.totalSkippedQuestions = Len(unanswered),
                                 !.currentSkippedQuestionNumber = 1,
                                 !.currentSkippedQuestionIndex = 0,
                                 !.skippedQuestionIDs = unanswered,
                                 !.previousQuestionID = NoQuestion,
                                 !.nextQuestionIDs = <<>>,
                                 !.currentQuestionID = unanswered[1],
                                 !.answeringSkipped = TRUE], Ok)
                EXCEPT !.presented = unanswered[1]]

\* CallbackHandler.handleStartInterview: the questions are generated and the
\* first question of the first iteration shown, with the history, the
\* forward stack and the replay state cleared
handleStartInterview(db, data, llm) ==
    LET loaded == LoadSessionQuestions(db, "found", llm)
    IN  IF loaded.err # Ok THEN Quiet(loaded.db, data, loaded.err)
        ELSE IF loaded.db.iterations = <<>> \/ Len(loaded.db.iterations[1].questions) = 0
        THEN Quiet(loaded.db, data, Ok)
        ELSE [Quiet(loaded.db,
                    [EndReplay(data) EXCEPT !.previousQuestionID = NoQuestion,
                                            !.nextQuestionIDs = <<>>,
                                            !.currentQuestionID =
                                                <<loaded.db.iterations[1].number, 1>>], Ok)
                EXCEPT !.presented = <<loaded.db.iterations[1].number, 1>>]

\* values of StateData.PendingConfirmation and of the "confirm" buttons
ConfirmCancel == "cancel"
ConfirmFinish == "finish"
ConfirmContinue == "continue"
ConfirmValues == { ConfirmCancel, ConfirmFinish, ConfirmContinue }

\* performCancellation: CancelSession, whose error is only logged, and
\* DeleteSession, which removes the chat state
performCancellation(db, data) ==
    [Quiet(CancelSession(db).db, InitialStateData, Ok) EXCEPT !.acted = TRUE]

\* Bot.handleCancelCommand: the prompt, or the cancellation when "cancel" is
\* pending already
handleCancelCommand(db, data) ==
    IF data.pendingConfirmation # ConfirmCancel
    THEN Quiet(db, [data EXCEPT !.pendingConfirmation = ConfirmCancel], Ok)
    ELSE performCancellation(db, data)

\* CallbackHandler.handleFinish: the prompt, or the cancellation when "finish"
\* is pending already
handleFinish(db, data) ==
    IF data.pendingConfirmation # ConfirmFinish
    THEN Quiet(db, [data EXCEPT !.pendingConfirmation = ConfirmFinish], Ok)
    ELSE performCancellation(db, data)

\* CallbackHandler.handleConfirmation: "cancel" and "finish" act when either
\* token is pending; "continue" clears the token
handleConfirmation(db, data, value) ==
    IF value \in { ConfirmCancel, ConfirmFinish }
    THEN IF data.pendingConfirmation = ConfirmCancel
            \/ data.pendingConfirmation = ConfirmFinish
         THEN performCancellation(db, data)
         ELSE Quiet(db, data, Ok)
    ELSE Quiet(db, [data EXCEPT !.pendingConfirmation = Null], Ok)

\* 5*time.Minute, the ceiling of the processing flag, in minutes
ProcessingCeiling == 5

\* the guard of handleGenerate without the ceiling
StillProcessingWhateverAge(data, clock) == data.isProcessing

\* handleGenerate: the flag is set and younger than the ceiling
StillProcessing(data, clock) ==
    data.isProcessing /\ clock - data.processingStarted < ProcessingCeiling

\* handleGenerateInterview: the summary, without validation
handleGenerateInterview(db, data, summary) ==
    LET finalSession == GenerateSummary(db, summary)
    IN  [Quiet(finalSession.db, data, finalSession.err) EXCEPT !.generated = TRUE]

\* handleGenerateDraft: the draft is validated while it is collected; then the
\* first follow-up question, with the history cleared, or the summary
handleGenerateDraft(db, data, validate, summary) ==
    LET additionalIteration ==
            IF db.session.status = SessionStatusDraftCollecting
            THEN ValidateDraftMessages(db, "found", validate) ELSE Return(db, 0)
    IN  IF additionalIteration.err # Ok
        THEN [Quiet(additionalIteration.db, data, additionalIteration.err)
                    EXCEPT !.triggered = TRUE]
        ELSE IF additionalIteration.ret # 0
        THEN [Quiet(additionalIteration.db,
                    [data EXCEPT !.previousQuestionID = NoQuestion,
                                 !.currentQuestionID = <<additionalIteration.ret, 1>>], Ok)
                EXCEPT !.triggered = TRUE, !.presented = <<additionalIteration.ret, 1>>]
        ELSE LET finalSession == GenerateDraftSummary(additionalIteration.db, "found", summary)
             IN  [Quiet(finalSession.db, data, finalSession.err)
                        EXCEPT !.triggered = db.session.status = SessionStatusDraftCollecting,
                               !.generated = TRUE]

\* handleGenerate between the setting and the clearing of the flag
generateRequirements(db, data, validate, summary) ==
    IF ~GetSessionByID(db) THEN Quiet(db, data, ErrNotFound)
    ELSE IF db.session.type = SessionTypeDraft
    THEN handleGenerateDraft(db, data, validate, summary)
    ELSE handleGenerateInterview(db, data, summary)

\* CallbackHandler.handleGenerate run without interruption: the "still
\* working" notice, or the flag set with its start time, the generation, and
\* the flag cleared on exit
handleGenerate(db, data, clock, validate, summary) ==
    IF StillProcessing(data, clock) THEN [Quiet(db, data, Ok) EXCEPT !.rejected = TRUE]
    ELSE LET done == generateRequirements(db,
                        [data EXCEPT !.isProcessing = TRUE, !.processingStarted = clock],
                        validate, summary)
         IN  [done EXCEPT !.data = [@ EXCEPT !.isProcessing = FALSE]]

(***************************************************************************)
(* SpecChat: one chat user and their Interview session, one update handled *)
(* at a time.  Buttons of earlier messages stay in the chat, so a callback *)
(* can arrive in any state; a text message reaches QuestionsHandler only   *)
(* while the session waits for answers (Bot.handleMessage routes by        *)
(* status).                                                                *)
(***************************************************************************)
InitChat ==
    /\ session = [ status |-> SessionStatusInterviewInfo, type |-> SessionTypeInterview,
                   userGoal |-> "goal", projectContext |-> ManualContext,
                   projectID |-> Null, currentIteration |-> 1, result |-> Null ]
    /\ iterations = <<>>
    /\ sessionMessages = 0
    /\ tgLinked = TRUE
    /\ draftMessageCount = 0
    /\ stateData = InitialStateData
    /\ now = 0
    /\ nav = NoNavigation
    /\ callbacks = [ t \in Tasks |-> IdleCallback ]
    /\ limits = NoLimits
    /\ updates = [ t \in Tasks |-> IdleUpdate ]
    /\ events = NoEvents
    /\ otherQuestion = OtherUnanswered
    /\ last = NoOperation
    /\ tasks = [ t \in Tasks |-> IdleTask ]

\* the step of a chat handler with outcome out: the database and the state
\* data it leaves, and nav its record unless it failed without writing
\* anything; DeleteSession removes the chat row
ChatCommit(op, value, out) ==
    /\ tgLinked
    /\ session' = out.db.session
    /\ iterations' = out.db.iterations
    /\ sessionMessages' = out.db.sessionMessages
    /\ stateData' = out.data
    /\ tgLinked' = ~out.acted
    /\ nav' = IF out.err # Ok /\ out.db = DB /\ out.data = stateData THEN nav
              ELSE [ op |-> op, value |-> value, err |-> out.err,
                     presented |-> out.presented, triggered |-> out.triggered,
                     acted |-> out.acted ]
    /\ UNCHANGED <<draftMessageCount, now, callbacks, limits, updates, events, otherQuestion,
                   last, tasks>>

\* the most questions the interview of the chat holds before validation
ChatQuestions == 2

\* what the gateway answers to the chat's interview: a failure, or blocks of
\* questions
ChatQuestionsResponses ==
    { [err |-> TRUE, blocks |-> <<>>] }
        \cup { [err |-> FALSE, blocks |-> b] :
                    b \in { l \in InterviewBlockLists : TotalQuestions(l) <= ChatQuestions } }

ChatStartInterview ==
    \E llm \in ChatQuestionsResponses :
        \E out \in { handleStartInterview(DB, stateData, llm) } :
            /\ StatusGuardPassed(out)
            /\ ChatCommit("handleStartInterview", NoQuestion, out)

ChatAnswer ==
    /\ session.status = SessionStatusWaitingForAnswers
    /\ \E answer \in AnswerTexts, validate \in ValidateResponses, summary \in SummaryResponses :
            \E out \in { QuestionsHandle(DB, stateData, answer, validate, summary) } :
                ChatCommit("QuestionsHandle", stateData.currentQuestionID, out)

\* the skip button of the question shown last
ChatSkip ==
    \E validate \in ValidateResponses, summary \in SummaryResponses :
        \E out \in { handleSkipQuestion(DB, stateData, stateData.currentQuestionID,
                                        validate, summary) } :
            ChatCommit("handleSkipQuestion", stateData.currentQuestionID, out)

\* entries of the forward stack the model follows
MaxForwardStack == 2

ChatPrevious ==
    /\ Len(stateData.nextQuestionIDs) < MaxForwardStack
    /\ \E out \in { handlePreviousQuestion(DB, stateData) } :
            ChatCommit("handlePreviousQuestion", NoQuestion, out)

ChatAnswerSkipped ==
    \E out \in { handleAnswerSkippedReplay(DB, stateData) } :
        ChatCommit("handleAnswerSkipped", NoQuestion, out)

ChatGenerate ==
    \E validate \in ValidateResponses, summary \in SummaryResponses :
        \E out \in { handleGenerate(DB, stateData, now, validate, summary) } :
            ChatCommit("handleGenerate", NoQuestion, out)

ChatCancelCommand ==
    \E out \in { handleCancelCommand(DB, stateData) } :
        ChatCommit("handleCancelCommand", NoQuestion, out)

ChatFinish ==
    \E out \in { handleFinish(DB, stateData) } :
        ChatCommit("handleFinish", NoQuestion, out)

ChatConfirm ==
    \E value \in ConfirmValues :
        \E out \in { handleConfirmation(DB, stateData, value) } :
            ChatCommit("handleConfirmation", value, out)

NextChat ==
    \/ ChatStartInterview
    \/ ChatAnswer
    \/ ChatSkip
    \/ ChatPrevious
    \/ ChatAnswerSkipped
    \/ ChatGenerate
    \/ ChatCancelCommand
    \/ ChatFinish
    \/ ChatConfirm

SpecChat == InitChat /\ [][NextChat]_vars

(***************************************************************************)
(* Claims about the navigation layer                                       *)
(***************************************************************************)
\* the operations with which the user moves on from the current question
AdvanceOps == { "QuestionsHandle", "handleSkipQuestion" }

\* a step of the replay of the skipped questions in which the state data
\* changed: an answer, a skip or a back navigation
ReplayStep ==
    /\ stateData.answeringSkipped
    /\ stateData' # stateData
    /\ nav'.op \in AdvanceOps \cup { "handlePreviousQuestion" }

\* C21 as stated: the replay presents the questions of its snapshot exactly
\* once and in snapshot order: every step of a replay that presents a
\* question presents the entry that follows the one presented before
C21_ReplayPresentsEachOnce ==
    [][ReplayStep /\ nav'.presented # NoQuestion /\ stateData'.answeringSkipped
            => /\ stateData'.currentSkippedQuestionIndex
                    = stateData.currentSkippedQuestionIndex + 1
               /\ nav'.presented = stateData.skippedQuestionIDs[
                                        stateData.currentSkippedQuestionIndex + 2]]_vars

\* C21 (amended): the replay takes as its snapshot the Skipped and Unanswered
\* questions in order and presents the first; an answer or a skip of the
\* question presented presents the next entry, and after the last entry ends
\* the replay with the validation path; a back navigation presents the entry
\* before once more, and the replay goes on from there
C21_ReplayFollowsSnapshot ==
    [][/\ nav'.op = "handleAnswerSkipped" /\ nav'.presented # NoQuestion
            => /\ stateData'.answeringSkipped
               /\ stateData'.skippedQuestionIDs = InOrder(GetUnansweredQuestions(DB))
               /\ stateData'.currentSkippedQuestionIndex = 0
               /\ nav'.presented = stateData'.skippedQuestionIDs[1]
       /\ ReplayStep /\ nav'.op \in AdvanceOps
            => IF stateData.currentSkippedQuestionIndex + 1 < Len(stateData.skippedQuestionIDs)
               THEN /\ stateData'.answeringSkipped
                    /\ stateData'.skippedQuestionIDs = stateData.skippedQuestionIDs
                    /\ stateData'.currentSkippedQuestionIndex
                            = stateData.currentSkippedQuestionIndex + 1
                    /\ nav'.presented = stateData.skippedQuestionIDs[
                                            stateData.currentSkippedQuestionIndex + 2]
                    /\ ~nav'.triggered
               ELSE /\ ~stateData'.answeringSkipped
                    /\ nav'.triggered
       /\ ReplayStep /\ nav'.op = "handlePreviousQuestion"
            => /\ stateData'.answeringSkipped
               /\ stateData'.skippedQuestionIDs = stateData.skippedQuestionIDs
               /\ stateData.currentSkippedQuestionIndex > 0
               /\ stateData'.currentSkippedQuestionIndex
                        = stateData.currentSkippedQuestionIndex - 1
               /\ nav'.presented = stateData.skippedQuestionIDs[
                                        stateData.currentSkippedQuestionIndex]]_vars

\* the last entry of a snapshot of two questions is presented after an answer
C21_Witness ==
    /\ stateData.answeringSkipped
    /\ Len(stateData.skippedQuestionIDs) = 2
    /\ stateData.currentSkippedQuestionIndex = 1
    /\ nav.op = "QuestionsHandle"
    /\ nav.presented = stateData.skippedQuestionIDs[2]

\* C22: when the replay of the skipped questions is entered while the session
\* has no Skipped or Unanswered question, the validation path is triggered
\* and no error is reported
C22_EmptyReplayTriggersValidation ==
    [][nav'.op = "handleAnswerSkipped" /\ QuestionIDs(iterations) # {}
            /\ GetUnansweredQuestions(DB) = {}
            => nav'.err = Ok /\ nav'.triggered]_vars

\* the state a back navigation leaves: the previous question is shown and the
\* question left is the top of the forward stack
AfterBack ==
    /\ tgLinked
    /\ nav.op = "handlePreviousQuestion"
    /\ nav.err = Ok
    /\ Len(stateData.nextQuestionIDs) > 0

QuestionLeft == stateData.nextQuestionIDs[Len(stateData.nextQuestionIDs)]

\* the answer or the skip was accepted: the handler went on to a question or
\* to the validation path
Advanced(out) == out.err = Ok \/ out.triggered \/ out.presented # NoQuestion

\* C23: after a back navigation from Q to P, the next advance from P, by an
\* answer or by a skip, makes Q the current question again
C23_BackThenAdvanceReturns ==
    AfterBack =>
        \A validate \in ValidateResponses, summary \in SummaryResponses :
            /\ \A answer \in AnswerTexts :
                    LET out == QuestionsHandle(DB, stateData, answer, validate, summary)
                    IN  Advanced(out) => /\ out.presented = QuestionLeft
                                         /\ out.data.currentQuestionID = QuestionLeft
            /\ LET out == handleSkipQuestion(DB, stateData, stateData.currentQuestionID,
                                             validate, summary)
               IN  Advanced(out) => /\ out.presented = QuestionLeft
                                    /\ out.data.currentQuestionID = QuestionLeft

\* C24: a back navigation with a previous question makes it current, clears
\* previousQuestionID, pushes the question left onto the forward stack and
\* shows the question with the answer it has; without a previous question it
\* changes nothing
C24_BackNavigation ==
    tgLinked =>
        LET out == handlePreviousQuestion(DB, stateData)
        IN  IF stateData.previousQuestionID # NoQuestion
            THEN /\ out.err = Ok
                 /\ out.data.currentQuestionID = stateData.previousQuestionID
                 /\ out.data.previousQuestionID = NoQuestion
                 /\ out.data.nextQuestionIDs
                        = Append(stateData.nextQuestionIDs, stateData.currentQuestionID)
                 /\ out.presented = stateData.previousQuestionID
                 /\ out.answerShown
                        = QuestionByID(iterations, stateData.previousQuestionID).answer
                 /\ out.db = DB
            ELSE /\ out.db = DB
                 /\ out.data = stateData
                 /\ out.presented = NoQuestion

\* a back navigation has shown an answered question with its answer, and a
\* second back navigation finds no previous question
C24_Witness ==
    /\ tgLinked
    /\ nav.op = "handlePreviousQuestion"
    /\ nav.err = Ok
    /\ nav.presented = stateData.currentQuestionID
    /\ QuestionByID(iterations, stateData.currentQuestionID).status = AnswerStatusAnswered
    /\ stateData.previousQuestionID = NoQuestion
    /\ Len(stateData.nextQuestionIDs) > 0

\* C25: whenever an answer or a skip of the current question Q goes on to a
\* next question, that question becomes currentQuestionID and Q becomes
\* previousQuestionID, whatever it held before
C25_AdvanceTracksHistory ==
    tgLinked /\ stateData.currentQuestionID # NoQuestion =>
        \A validate \in ValidateResponses, summary \in SummaryResponses :
            /\ \A answer \in AnswerTexts :
                    LET out == QuestionsHandle(DB, stateData, answer, validate, summary)
                    IN  out.presented # NoQuestion
                            => /\ out.data.currentQuestionID = out.presented
                               /\ out.data.previousQuestionID = stateData.currentQuestionID
            /\ LET out == handleSkipQuestion(DB, stateData, stateData.currentQuestionID,
                                             validate, summary)
               IN  out.presented # NoQuestion
                        => /\ out.data.currentQuestionID = out.presented
                           /\ out.data.previousQuestionID = stateData.currentQuestionID

\* an answer or a skip has gone on to a question and replaced the previous
\* question recorded before
C25_Witness ==
    /\ tgLinked
    /\ nav.op \in AdvanceOps
    /\ nav.presented # NoQuestion
    /\ stateData.currentQuestionID = nav.presented
    /\ stateData.previousQuestionID = nav.value
    /\ stateData.previousQuestionID # <<1, 1>>

(***************************************************************************)
(* SpecGenerate: callback queries of one chat user handled concurrently.   *)
(* Bot.handleUpdate runs every update in a goroutine of its own;           *)
(* Bot.handleCallbackQuery loads the StateData into the context of the     *)
(* query, and the handler reads and stores that copy (Manager.GetStateData *)
(* returns the copy of the context, Manager.UpdateStateData stores the     *)
(* whole of it).  The buttons pressed are "generate requirements" and      *)
(* "continue" of a confirmation prompt; the clock counts minutes.          *)
(***************************************************************************)
\* the clock stops here, past the ceiling of a flag set in the first minutes
MaxClock == 7

\* the session when the buttons are pressed: an interview that waits for the
\* answer to its question, or a draft that collects messages and holds one;
\* the "cancel" button may have been pressed once, its confirmation pending
InitGenerate ==
    /\ \/ /\ session = [ status |-> SessionStatusWaitingForAnswers,
                         type |-> SessionTypeInterview,
                         userGoal |-> "goal", projectContext |-> ManualContext,
                         projectID |-> Null, currentIteration |-> 1, result |-> Null ]
          /\ iterations = saveQuestionsToDatabase(
                                [ session |-> [ status |-> SessionStatusInterviewInfo,
                                                type |-> SessionTypeInterview,
                                                userGoal |-> "goal",
                                                projectContext |-> ManualContext,
                                                projectID |-> Null, currentIteration |-> 1,
                                                result |-> Null ],
                                  iterations |-> <<>>, sessionMessages |-> 0,
                                  writes |-> <<>> ],
                                <<1>>, GeneratedTitles(<<1>>)).db.iterations
          /\ sessionMessages = 0
          /\ \E pending \in { Null, ConfirmCancel } :
                stateData = [InitialStateData EXCEPT !.currentQuestionID = <<1, 1>>,
                                                     !.pendingConfirmation = pending]
       \/ /\ session = [ status |-> SessionStatusDraftCollecting, type |-> SessionTypeDraft,
                         userGoal |-> "goal", projectContext |-> ManualContext,
                         projectID |-> Null, currentIteration |-> 1, result |-> Null ]
          /\ iterations = <<>>
          /\ sessionMessages = 1
          /\ \E pending \in { Null, ConfirmCancel } :
                stateData = [InitialStateData EXCEPT !.pendingConfirmation = pending]
    /\ tgLinked = TRUE
    /\ draftMessageCount = sessionMessages
    /\ now = 1
    /\ nav = NoNavigation
    /\ callbacks = [ t \in Tasks |-> IdleCallback ]
    /\ limits = NoLimits
    /\ updates = [ t \in Tasks |-> IdleUpdate ]
    /\ events = NoEvents
    /\ otherQuestion = OtherUnanswered
    /\ last = NoOperation
    /\ tasks = [ t \in Tasks |-> IdleTask ]

\* the variables the callback queries leave alone
generateFrame ==
    <<tgLinked, draftMessageCount, nav, limits, updates, events, otherQuestion, last, tasks>>

\* Bot.handleCallbackQuery: the StateData is loaded and attached to the
\* context, and the handler started in a goroutine
handleCallbackQuery(t) ==
    /\ callbacks[t].pc = "idle"
    /\ \E action \in { "generate", ConfirmContinue } :
            callbacks' = [callbacks EXCEPT ![t] =
                            [ pc |-> "handle", action |-> action, data |-> stateData ]]
    /\ UNCHANGED <<session, iterations, sessionMessages, stateData, now, generateFrame>>

\* handleGenerate up to the setting of the flag: the "still working" notice,
\* or the flag set with its start time and stored
GenerateGuard(t) ==
    /\ callbacks[t].pc = "handle"
    /\ callbacks[t].action = "generate"
    /\ IF StillProcessing(callbacks[t].data, now)
       THEN /\ callbacks' = [callbacks EXCEPT ![t].pc = "still working"]
            /\ UNCHANGED stateData
       ELSE /\ callbacks' = [callbacks EXCEPT ![t].pc = "generating",
                                              ![t].data.isProcessing = TRUE,
                                              ![t].data.processingStarted = now]
            /\ stateData' = callbacks'[t].data
    /\ UNCHANGED <<session, iterations, sessionMessages, now, generateFrame>>

\* handleGenerate returns after the notice
GenerateIgnored(t) ==
    /\ callbacks[t].pc = "still working"
    /\ callbacks' = [callbacks EXCEPT ![t] = IdleCallback]
    /\ UNCHANGED <<session, iterations, sessionMessages, stateData, now, generateFrame>>

\* handleGenerate between the setting and the clearing of the flag: the
\* validation and the summary; handleGenerateDraft stores the state data when
\* it shows a follow-up question
GenerateRun(t) ==
    /\ callbacks[t].pc = "generating"
    /\ \E validate \in ValidateResponses, summary \in SummaryResponses :
        \E out \in { generateRequirements(DB, callbacks[t].data, validate, summary) } :
            /\ session' = out.db.session
            /\ iterations' = out.db.iterations
            /\ sessionMessages' = out.db.sessionMessages
            /\ callbacks' = [callbacks EXCEPT ![t].pc = "cleanup", ![t].data = out.data]
            /\ stateData' = IF out.data # callbacks[t].data THEN out.data ELSE stateData
    /\ UNCHANGED <<now, generateFrame>>

\* the deferred function of handleGenerate: the flag is cleared and stored
GenerateCleanup(t) ==
    /\ callbacks[t].pc = "cleanup"
    /\ stateData' = [callbacks[t].data EXCEPT !.isProcessing = FALSE]
    /\ callbacks' = [callbacks EXCEPT ![t] = IdleCallback]
    /\ UNCHANGED <<session, iterations, sessionMessages, now, generateFrame>>

\* handleConfirmation with "continue": the token is cleared and the state
\* data stored
ConfirmationContinue(t) ==
    /\ callbacks[t].pc = "handle"
    /\ callbacks[t].action = ConfirmContinue
    /\ stateData' = handleConfirmation(DB, callbacks[t].data, ConfirmContinue).data
    /\ callbacks' = [callbacks EXCEPT ![t] = IdleCallback]
    /\ UNCHANGED <<session, iterations, sessionMessages, now, generateFrame>>

\* a minute passes
Tick ==
    /\ now < MaxClock
    /\ now' = now + 1
    /\ UNCHANGED <<session, iterations, sessionMessages, stateData, callbacks, generateFrame>>

NextGenerate ==
    \/ \E t \in Tasks :
        \/ handleCallbackQuery(t)
        \/ GenerateGuard(t)
        \/ GenerateIgnored(t)
        \/ GenerateRun(t)
        \/ GenerateCleanup(t)
        \/ ConfirmationContinue(t)
    \/ Tick

SpecGenerate == InitGenerate /\ [][NextGenerate]_vars

\* the step in which the handler of a "generate" trigger decides
GuardStep(t) ==
    /\ callbacks[t].pc = "handle"
    /\ callbacks[t].action = "generate"
    /\ callbacks'[t].pc # "handle"

\* the trigger is answered "still working" and nothing is generated or stored
Rejected(t) ==
    /\ callbacks'[t].pc = "still working"
    /\ UNCHANGED <<session, iterations, sessionMessages, stateData>>

\* the trigger sets the flag and goes on to the generation
Accepted(t) ==
    /\ callbacks'[t].pc = "generating"
    /\ stateData'.isProcessing
    /\ stateData'.processingStarted = now

\* C26 as stated, for a trigger handled while no other callback query of the
\* user is in progress: decided less than 5 minutes after an accepted trigger
\* (whose start time the state data holds) it is rejected, and decided 5
\* minutes or more after it, it is accepted
C26_SecondTriggerByAge ==
    [][\A t \in Tasks :
            (/\ GuardStep(t)
             /\ \A u \in Tasks \ { t } : callbacks[u].pc = "idle"
             /\ stateData.processingStarted > 0)
                => IF now - stateData.processingStarted < ProcessingCeiling
                   THEN Rejected(t) ELSE Accepted(t)]_vars

\* C26 (amended): a trigger is rejected exactly when the state data loaded
\* for it holds the processing flag with a start time less than 5 minutes
\* old; a trigger that finds the flag cleared, because the earlier generation
\* has exited, or finds it 5 minutes old or older is accepted
C26_TriggerRejectedWhileFlagged ==
    [][\A t \in Tasks :
            GuardStep(t)
                => IF /\ callbacks[t].data.isProcessing
                      /\ now - callbacks[t].data.processingStarted < ProcessingCeiling
                   THEN Rejected(t) ELSE Accepted(t)]_vars

\* a trigger was answered "still working" while the generation of an earlier
\* trigger, less than 5 minutes old, is in flight
C26_Witness ==
    \E t, u \in Tasks :
        /\ callbacks[t].pc = "still working"
        /\ callbacks[u].pc = "generating"
        /\ callbacks[t].data.processingStarted = callbacks[u].data.processingStarted
        /\ now > callbacks[u].data.processingStarted

\* C27: no two generations are in flight for the user whose processing flags
\* were set less than 5 minutes apart, under every interleaving of the
\* callback queries
C27_OneGenerationInFlight ==
    \A t, u \in Tasks :
        /\ t # u
        /\ callbacks[t].pc = "generating"
        /\ callbacks[u].pc = "generating"
        /\ callbacks[t].data.processingStarted <= callbacks[u].data.processingStarted
        => callbacks[u].data.processingStarted - callbacks[t].data.processingStarted
                >= ProcessingCeiling

\* C28: when no execution of the generate action is between the setting of
\* the processing flag and its exit, the stored state data has the flag
\* cleared
C28_FlagClearedAfterExit ==
    (\A t \in Tasks : callbacks[t].pc \notin { "generating", "cleanup" })
        => ~stateData.isProcessing

\* the token the invocation recorded in nav' carries: the value of a
\* confirmation button, "cancel" for the command and "finish" for the button
TokenOfStep ==
    IF nav'.op = "handleConfirmation" THEN nav'.value
    ELSE IF nav'.op = "handleCancelCommand" THEN ConfirmCancel
    ELSE ConfirmFinish

\* C29: the session is cancelled and the chat state deleted only by an
\* invocation whose confirmation value equals the pending token
C29_DestructiveOnlyWithMatchingToken ==
    [][tgLinked /\ nav'.acted => stateData.pendingConfirmation = TokenOfStep]_vars

\* buttons other than the confirmation matching the pending token and other
\* than the cancel and finish invocations themselves
OtherButtonStep ==
    /\ nav' # nav
    /\ \/ nav'.op \in { "handleStartInterview", "handleSkipQuestion",
                        "handlePreviousQuestion", "handleAnswerSkipped", "handleGenerate" }
       \/ nav'.op = "handleConfirmation" /\ nav'.value # stateData.pendingConfirmation

\* C30: while a token is pending, any other button clears it and does not
\* perform the destructive action
C30_OtherButtonClearsToken ==
    [][stateData.pendingConfirmation # Null /\ OtherButtonStep
            => stateData'.pendingConfirmation = Null /\ ~nav'.acted]_vars

(***************************************************************************)
(* RateLimiterMiddleware (internal/telegram/middleware/ratelimit.go): the  *)
(* first middleware of Bot.handleUpdateWithMiddleware.  Every update runs  *)
(* in its own goroutine; allowRequest looks the user's entry up under the  *)
(* map's lock and refills, tests and debits it under the entry's lock.     *)
(* Token amounts are counted in parts of a token, time in ticks.           *)
(***************************************************************************)
\* parts one token is divided into
TokenUnit == 2
\* requestsPerMinute of the configuration, in tokens: maxTokens
RequestsPerMinute == 1
\* ticks the wall clock of the rate limiter runs for
MaxRateClock == 4
\* userLimit entries allocated in a run
MaxLimits == 2

\* what an update carries: a message, a callback query, or neither
UpdateKinds == { "message", "callback", "other" }

\* rl.maxTokens, in parts
maxTokens == RequestsPerMinute * TokenUnit

\* rl.refillRate, in parts per tick: one part, so a bucket fills in
\* maxTokens ticks (a minute)
refillRate == 1

\* rl.warningInterval (half a minute), in ticks
warningInterval == maxTokens \div 2

\* inactiveThreshold of cleanupInactiveUsers (an hour, many refill periods),
\* in ticks
inactiveThreshold == maxTokens

\* lastWarningAt of a new userLimit (the zero time): older than
\* warningInterval at any moment
NeverWarned == 0 - warningInterval - 1

\* the refill of allowRequest: tokens += elapsed * refillRate, capped at
\* maxTokens
Refill(limit, clock) ==
    LET filled == limit.tokens + (clock - limit.lastRefill) * refillRate
    IN  IF filled > maxTokens THEN maxTokens ELSE filled

\* the section of allowRequest under limit.mu, admitting a request on any
\* positive amount of tokens
allowRequestOnAnyAmount(limit, clock) ==
    LET tokens == Refill(limit, clock)
        filled == [limit EXCEPT !.tokens = tokens, !.lastRefill = clock]
    IN  IF tokens > 0
        THEN [ limit |-> [filled EXCEPT !.tokens = IF tokens >= TokenUnit
                                                   THEN tokens - TokenUnit ELSE 0,
                                        !.warningsSent = 0],
               allowed |-> TRUE ]
        ELSE [ limit |-> filled, allowed |-> FALSE ]

\* the section of allowRequest under limit.mu: refill, then a request is
\* allowed and debited when tokens >= 1.0; otherwise a warning is sent when
\* the last one is older than warningInterval (warningsSent counts to the
\* last wording, 3)
allowRequest(limit, clock) ==
    LET tokens == Refill(limit, clock)
        filled == [limit EXCEPT !.tokens = tokens, !.lastRefill = clock]
    IN  IF tokens >= TokenUnit
        THEN [ limit |-> [filled EXCEPT !.tokens = tokens - TokenUnit,
                                        !.warningsSent = 0],
               allowed |-> TRUE ]
        ELSE IF clock - limit.lastWarningAt > warningInterval
        THEN [ limit |-> [filled EXCEPT !.warningsSent =
                                            IF @ < 3 THEN @ + 1 ELSE 3,
                                        !.lastWarningAt = clock],
               allowed |-> FALSE ]
        ELSE [ limit |-> filled, allowed |-> FALSE ]

InitRateLimit ==
    /\ session = [ status |-> NoSession, type |-> Null, userGoal |-> Null,
                   projectContext |-> Null, projectID |-> Null,
                   currentIteration |-> 1, result |-> Null ]
    /\ iterations = <<>>
    /\ sessionMessages = 0
    /\ tgLinked = FALSE
    /\ draftMessageCount = 0
    /\ stateData = InitialStateData
    /\ now = 0
    /\ nav = NoNavigation
    /\ callbacks = [ t \in Tasks |-> IdleCallback ]
    /\ limits = NoLimits
    /\ updates = [ t \in Tasks |-> IdleUpdate ]
    /\ events = NoEvents
    /\ otherQuestion = OtherUnanswered
    /\ last = NoOperation
    /\ tasks = [ t \in Tasks |-> IdleTask ]

\* the variables the rate limiter leaves alone
rateLimitFrame ==
    <<session, iterations, sessionMessages, tgLinked, draftMessageCount, stateData, nav,
      callbacks, events, otherQuestion, last, tasks>>

\* RateLimiterMiddleware.Handle up to the lookup of allowRequest: an update
\* that is neither a message nor a callback query is handed to next at once;
\* otherwise the user's entry is looked up, and created full when missing
RateLimiterHandle(t) ==
    /\ updates[t].pc = "idle"
    /\ \E user \in Users, kind \in UpdateKinds :
            IF kind = "other"
            THEN /\ updates' = [updates EXCEPT ![t] =
                                    [ pc |-> "idle", user |-> 0, kind |-> kind,
                                      limit |-> 0, passed |-> TRUE ]]
                 /\ UNCHANGED limits
            ELSE IF limits.byUser[user] # 0
            THEN /\ updates' = [updates EXCEPT ![t] =
                                    [ pc |-> "allowRequest", user |-> user, kind |-> kind,
                                      limit |-> limits.byUser[user], passed |-> FALSE ]]
                 /\ UNCHANGED limits
            ELSE /\ Len(limits.entries) < MaxLimits
                 /\ limits' = [ byUser |-> [limits.byUser EXCEPT
                                                ![user] = Len(limits.entries) + 1],
                                entries |-> Append(limits.entries,
                                                   [ tokens |-> maxTokens,
                                                     lastRefill |-> now,
                                                     warningsSent |-> 0,
                                                     lastWarningAt |-> NeverWarned ]) ]
                 /\ updates' = [updates EXCEPT ![t] =
                                    [ pc |-> "allowRequest", user |-> user, kind |-> kind,
                                      limit |-> Len(limits.entries) + 1,
                                      passed |-> FALSE ]]
    /\ UNCHANGED <<now, rateLimitFrame>>

\* the rest of Handle: the locked section of allowRequest on the entry looked
\* up, then next(update) when it allowed the request and a return without
\* next otherwise
RateLimiterAllow(t) ==
    /\ updates[t].pc = "allowRequest"
    /\ LET out == allowRequest(limits.entries[updates[t].limit], now)
       IN  /\ limits' = [limits EXCEPT !.entries[updates[t].limit] = out.limit]
           /\ updates' = [updates EXCEPT ![t].pc = "idle", ![t].user = 0,
                                      ![t].passed = out.allowed]
    /\ UNCHANGED <<now, rateLimitFrame>>

\* cleanupInactiveUsers, one tick of its ticker: under the map's lock every
\* entry not refilled for longer than inactiveThreshold leaves the map (a
\* request that has looked it up keeps using it)
cleanupInactiveUsers ==
    /\ \E u \in Users : /\ limits.byUser[u] # 0
                        /\ now - limits.entries[limits.byUser[u]].lastRefill
                                > inactiveThreshold
    /\ limits' = [limits EXCEPT !.byUser =
                    [ u \in Users |->
                        IF /\ limits.byUser[u] # 0
                           /\ now - limits.entries[limits.byUser[u]].lastRefill
                                > inactiveThreshold
                        THEN 0 ELSE limits.byUser[u] ]]
    /\ UNCHANGED <<now, updates, rateLimitFrame>>

\* the wall clock advances
RateTick ==
    /\ now < MaxRateClock
    /\ now' = now + 1
    /\ UNCHANGED <<limits, updates, rateLimitFrame>>

NextRateLimit ==
    \/ \E t \in Tasks : RateLimiterHandle(t)
    \/ \E t \in Tasks : RateLimiterAllow(t)
    \/ cleanupInactiveUsers
    \/ RateTick

SpecRateLimit == InitRateLimit /\ [][NextRateLimit]_vars

\* the locked section of allowRequest runs for the update of task t
AllowStep(t) ==
    /\ updates[t].pc = "allowRequest"
    /\ updates'[t].pc = "idle"

\* the tokens the entry of the update of task t holds when the update is
\* tested, the continuous refill included
TokensAtArrival(t) == Refill(limits.entries[updates[t].limit], now)

\* C31: a message or callback query tested against a bucket that holds, with
\* the refill up to that moment, less than one token is not handed to the next
\* handler of the chain (logging, recovery, Bot.handleUpdate), and the bucket
\* is not debited
C31_DroppedBelowOneToken ==
    [][ \A t \in Tasks :
            (AllowStep(t) /\ updates[t].kind \in { "message", "callback" }
                /\ TokensAtArrival(t) < TokenUnit)
            => /\ ~updates'[t].passed
               /\ limits'.entries[updates[t].limit].tokens = TokensAtArrival(t) ]_vars

\* an update was dropped on a bucket holding a part of a token
C31_Witness ==
    \E t \in Tasks :
        /\ updates[t].pc = "idle"
        /\ updates[t].kind \in { "message", "callback" }
        /\ ~updates[t].passed
        /\ updates[t].limit # 0
        /\ limits.entries[updates[t].limit].tokens \in 1..(TokenUnit - 1)

(***************************************************************************)
(* The callback connector (internal/connectors/callback): SendQuestions,   *)
(* SendProjectUpdated, SendFinalResult and SendError build an event and    *)
(* hand it to Send, which makes one HTTP request to the destination.  The  *)
(* HTTP handlers call them from the background goroutine of a request that *)
(* has already been answered.                                              *)
(***************************************************************************)
\* events emitted in a run
MaxEvents == 3

\* the event types of the connector
EventTypes == { "questions", "projectUpdated", "finalResult", "error" }

\* what the destination does with a request
Deliveries == { "delivered", "failed" }

\* Connector.Send making a second DoRequest after a failed one
SendWithRetry(event, network) ==
    IF network = "delivered"
    THEN [ attempts |-> 1, err |-> Ok ]
    ELSE [ attempts |-> 2, err |-> "failed to send callback" ]

\* Connector.Send: one DoRequest; its error comes back wrapped
Send(event, network) ==
    IF network = "delivered"
    THEN [ attempts |-> 1, err |-> Ok ]
    ELSE [ attempts |-> 1, err |-> "failed to send callback" ]

\* the body shared by the four helpers: Send, ctxzap.Error on an error, and
\* no return value
SendEvent(event, network) ==
    LET sent == Send(event, network)
    IN  [ sink |-> IF sent.err = Ok THEN Append(events.sink, event) ELSE events.sink,
          log |-> IF sent.err = Ok THEN events.log ELSE Append(events.log, event),
          attempts |-> sent.attempts,
          network |-> network,
          surfaced |-> "nothing" ]

InitNotify ==
    /\ session = [ status |-> NoSession, type |-> Null, userGoal |-> Null,
                   projectContext |-> Null, projectID |-> Null,
                   currentIteration |-> 1, result |-> Null ]
    /\ iterations = <<>>
    /\ sessionMessages = 0
    /\ tgLinked = FALSE
    /\ draftMessageCount = 0
    /\ stateData = InitialStateData
    /\ now = 0
    /\ nav = NoNavigation
    /\ callbacks = [ t \in Tasks |-> IdleCallback ]
    /\ limits = NoLimits
    /\ updates = [ t \in Tasks |-> IdleUpdate ]
    /\ events = NoEvents
    /\ otherQuestion = OtherUnanswered
    /\ last = NoOperation
    /\ tasks = [ t \in Tasks |-> IdleTask ]

\* the variables the emitter leaves alone
notifyFrame ==
    <<session, iterations, sessionMessages, tgLinked, draftMessageCount, stateData, now, nav,
      callbacks, limits, updates, otherQuestion, last, tasks>>

\* a helper emits an event of the type
Emit(type) ==
    /\ Len(events.sink) + Len(events.log) < MaxEvents
    /\ \E network \in Deliveries : events' = SendEvent(type, network)
    /\ UNCHANGED notifyFrame

SendQuestions == Emit("questions")

SendProjectUpdated == Emit("projectUpdated")

SendFinalResult == Emit("finalResult")

SendError == Emit("error")

NextNotify == SendQuestions \/ SendProjectUpdated \/ SendFinalResult \/ SendError

SpecNotify == InitNotify /\ [][NextNotify]_vars

\* C32: every emission makes one delivery attempt and hands nothing back to
\* its caller; an event whose delivery failed is logged once and does not
\* reach the destination, an event delivered is not logged; nothing emitted
\* earlier is sent again
C32_FailureLoggedOnly ==
    [][ /\ events'.attempts = 1
        /\ events'.surfaced = "nothing"
        /\ IF events'.network = "failed"
           THEN /\ Len(events'.log) = Len(events.log) + 1
                /\ SubSeq(events'.log, 1, Len(events.log)) = events.log
                /\ events'.sink = events.sink
           ELSE /\ Len(events'.sink) = Len(events.sink) + 1
                /\ SubSeq(events'.sink, 1, Len(events.sink)) = events.sink
                /\ events'.log = events.log ]_vars

\* the delivery of an event has failed after another was delivered: it is in
\* the log, one attempt was made and nothing came back to the caller
C32_Witness ==
    /\ Len(events.log) >= 1
    /\ Len(events.sink) >= 1
    /\ events.network = "failed"
    /\ events.attempts = 1
    /\ events.surfaced = "nothing"

(***************************************************************************)
(* SpecAnswers: two request tasks submitting and skipping answers on one   *)
(* Interview session in WaitingForAnswers.  Every step is one database     *)
(* statement of SubmitTextAnswer, SkipAnswer or getCurrentIteration; the   *)
(* statements of the two tasks interleave (each HTTP request and each chat *)
(* update runs in its own goroutine, and no transaction or lock spans the  *)
(* statements of a call).                                                  *)
(***************************************************************************)
\* the question blocks of the session: one or two iterations of one question
AnswerBlocks == { <<1>>, <<1, 1>> }

AnswerOps == { "SubmitTextAnswer", "SkipAnswer" }

InitAnswers ==
    /\ session = [ status |-> SessionStatusWaitingForAnswers, type |-> SessionTypeInterview,
                   userGoal |-> "goal", projectContext |-> ManualContext,
                   projectID |-> Null, currentIteration |-> 1, result |-> Null ]
    /\ \E blocks \in AnswerBlocks :
            iterations = saveQuestionsToDatabase(
                            [ session |-> [ status |-> SessionStatusInterviewInfo,
                                            type |-> SessionTypeInterview,
                                            userGoal |-> "goal",
                                            projectContext |-> ManualContext,
                                            projectID |-> Null, currentIteration |-> 1,
                                            result |-> Null ],
                              iterations |-> <<>>, sessionMessages |-> 0,
                              writes |-> <<>> ],
                            blocks, GeneratedTitles(blocks)).db.iterations
    /\ sessionMessages = 0
    /\ tgLinked = FALSE
    /\ draftMessageCount = 0
    /\ stateData = InitialStateData
    /\ now = 0
    /\ nav = NoNavigation
    /\ callbacks = [ t \in Tasks |-> IdleCallback ]
    /\ limits = NoLimits
    /\ updates = [ t \in Tasks |-> IdleUpdate ]
    /\ events = NoEvents
    /\ otherQuestion = OtherUnanswered
    /\ last = NoOperation
    /\ tasks = [ t \in Tasks |-> IdleTask ]

\* GetSessionByID and the status guard of SubmitTextAnswer / SkipAnswer
AnswerGuard(t) ==
    /\ tasks[t].pc = "idle"
    /\ \E op \in AnswerOps, questionID \in QuestionIDs(iterations) :
        LET task == [IdleTask EXCEPT !.op = op, !.seen = session.status,
                                     !.questionID = questionID]
        IN  Statement(t, DB,
                IF session.status # SessionStatusWaitingForAnswers
                THEN Finished(task, ErrWrongStatus)
                ELSE [task EXCEPT !.pc = "write"])

\* UpdateQuestionAnswer / SkipQuestion
AnswerWrite(t) ==
    /\ tasks[t].pc = "write"
    /\ Statement(t, IF tasks[t].op = "SkipAnswer" THEN SkipQuestion(DB, tasks[t].questionID)
                    ELSE UpdateQuestionAnswer(DB, tasks[t].questionID, "answer"),
                 [tasks[t] EXCEPT !.pc = "current"])

\* getCurrentIteration: GetCurrentIteration, ListQuestionsByIteration and the
\* test of the last question
AnswerCurrent(t) ==
    /\ tasks[t].pc = "current"
    /\ LET current == GetCurrentIteration(DB)
       IN  Statement(t, DB,
                IF ~HasIteration(iterations, current) THEN Finished(tasks[t], ErrInternal)
                ELSE LET curentQuestion == IterationByNumber(iterations, current).questions
                     IN  IF Len(curentQuestion) = 0 THEN Finished(tasks[t], ErrInternal)
                         ELSE IF curentQuestion[Len(curentQuestion)].status
                                    = AnswerStatusUnanswered
                         THEN Finished(tasks[t], Ok)
                         ELSE [tasks[t] EXCEPT !.pc = "next"])

\* getCurrentIteration: GetNextIteration; without a next iteration the call
\* returns no iteration, and its caller goes on to the status write
\* (SubmitTextAnswer by way of GetUnansweredQuestions)
AnswerNext(t) ==
    /\ tasks[t].pc = "next"
    /\ LET next == GetNextIteration(DB)
       IN  Statement(t, DB,
                IF HasIteration(iterations, next)
                THEN [tasks[t] EXCEPT !.pc = "advance", !.max = next]
                ELSE IF tasks[t].op = "SkipAnswer"
                THEN [tasks[t] EXCEPT !.pc = "status", !.target = SessionStatusValidating]
                ELSE [tasks[t] EXCEPT !.pc = "unanswered"])

\* getCurrentIteration: UpdateSessionIteration
AnswerAdvance(t) ==
    /\ tasks[t].pc = "advance"
    /\ session.currentIteration <= MaxIterations
    /\ Statement(t, UpdateSessionIteration(DB), [tasks[t] EXCEPT !.pc = "list next"])

\* getCurrentIteration: ListQuestionsByIteration of the next iteration read
AnswerListNext(t) ==
    /\ tasks[t].pc = "list next"
    /\ Statement(t, DB,
            IF Len(IterationByNumber(iterations, tasks[t].max).questions) = 0
            THEN Finished(tasks[t], ErrInternal)
            ELSE Finished(tasks[t], Ok))

\* SubmitTextAnswer: GetUnansweredQuestions
AnswerUnanswered(t) ==
    /\ tasks[t].pc = "unanswered"
    /\ Statement(t, DB,
            IF GetUnansweredQuestions(DB) = {}
            THEN [tasks[t] EXCEPT !.pc = "status", !.target = SessionStatusValidating]
            ELSE Finished(tasks[t], Ok))

\* UpdateSessionStatus(VALIDATING)
AnswerStatus(t) ==
    /\ tasks[t].pc = "status"
    /\ Statement(t, UpdateSessionStatus(DB, tasks[t].target), Finished(tasks[t], Ok))

\* the call has returned; the client sends the next one (a retry included)
AnswerReturn(t) ==
    /\ tasks[t].pc = "done"
    /\ Statement(t, DB, IdleTask)

NextAnswers ==
    \E t \in Tasks :
        \/ AnswerGuard(t)
        \/ AnswerWrite(t)
        \/ AnswerCurrent(t)
        \/ AnswerNext(t)
        \/ AnswerAdvance(t)
        \/ AnswerListNext(t)
        \/ AnswerUnanswered(t)
        \/ AnswerStatus(t)
        \/ AnswerReturn(t)

SpecAnswers == InitAnswers /\ [][NextAnswers]_vars

\* C33: under retried and concurrent submit / skip calls the current-iteration
\* pointer never exceeds the highest iteration number of the session
C33_PointerWithinIterations ==
    session.currentIteration <= GetMaxIterationNumber(iterations)

(***************************************************************************)
(* What the two front-ends can do to a session, gateways succeeding.  The  *)
(* HTTP front-end has one answer endpoint, which submits or skips and then *)
(* validates and summarises; the chat front-end reaches the use case       *)
(* through its text handlers (routed by session status) and its buttons    *)
(* (pressed in any state).  The steps below follow the database only: the  *)
(* button or message may name any question, and after a successful answer  *)
(* or skip the chat may or may not enter its validation path, so every     *)
(* session state a front-end can produce is among them.                    *)
(***************************************************************************)
\* Handler.SubmitTextAnswer of the HTTP front-end, the body of its goroutine:
\* SkipAnswer or SubmitTextAnswer, then ValidateAnswers when no iteration
\* came back, then GenerateSummary when no follow-up iteration came back;
\* the first error ends it
HTTPSubmitTextAnswer(db, questionID, isSkipped, validate, summary) ==
    LET iteration == IF isSkipped THEN SkipAnswer(db, questionID)
                     ELSE SubmitTextAnswer(db, questionID, "answer")
    IN  IF iteration.err # Ok \/ iteration.ret # 0 THEN iteration
        ELSE LET additional == ValidateAnswers(iteration.db, validate)
             IN  IF additional.err # Ok \/ additional.ret # 0 THEN additional
                 ELSE GenerateSummary(additional.db, summary)

\* the gateway answers that are not failures
ValidateSucceeds == { llm \in ValidateResponses : ~llm.err }

SummarySucceeds == { llm \in SummaryResponses : ~llm.err }

GenerateQuestionsSucceeds == { llm \in GenerateQuestionsResponses : ~llm.err }

RagSucceeds == { rag \in RagResponses : ~rag.err }

\* the databases the answer endpoint of the HTTP front-end can leave
HTTPSteps(db) ==
    { HTTPSubmitTextAnswer(db, questionID, isSkipped, validate, summary).db :
        questionID \in QuestionIDs(db.iterations), isSkipped \in BOOLEAN,
        validate \in ValidateSucceeds, summary \in SummarySucceeds }

\* the databases a successful answer or skip of the chat leaves, without and
\* with the validation path after it
ChatAnswered(out) ==
    IF out.err # Ok THEN { out.db }
    ELSE { out.db } \cup
         { handleValidationAndSummaryCommon(out.db, InitialStateData, validate, summary).db :
              validate \in ValidateSucceeds, summary \in SummarySucceeds }

\* the databases the handlers of the chat front-end other than the
\* cancellation can leave: the text handlers by status, then the buttons
ChatSteps(db) ==
    (IF db.session.status = SessionStatusWaitingForAnswers
     THEN UNION { ChatAnswered(SubmitTextAnswer(db, questionID, "answer")) :
                    questionID \in QuestionIDs(db.iterations) }
     ELSE IF db.session.status = SessionStatusDraftCollecting
     THEN IF db.sessionMessages < MaxMessages THEN { AddDraftMessage(db).db } ELSE {}
     ELSE IF db.session.status = SessionStatusAskUserGoal
     THEN { SubmitTextUserGoal(db, "goal").db }
     ELSE IF db.session.status = SessionStatusAskUserContext
     THEN { SubmitTextUserProjectContext(db).db }
     ELSE IF db.session.status = SessionStatusAskProjectName
     THEN { ProjectNameHandler(db).db }
     ELSE IF db.session.status = SessionStatusAskProjectDescription
     THEN { ProjectDescriptionHandler(db, TRUE).db }
     ELSE {})
    \cup UNION { ChatAnswered(SkipAnswer(db, questionID)) :
                    questionID \in QuestionIDs(db.iterations) }
    \cup UNION { ChatAnswered(SkipSkipedQuestion(db, questionID)) :
                    questionID \in QuestionIDs(db.iterations) }
    \cup { generateRequirements(db, InitialStateData, validate, summary).db :
            validate \in ValidateSucceeds, summary \in SummarySucceeds }
    \cup { handleAnswerSkipped(db).db, handleSaveNewProject(db).db,
           StartManualContext(db).db, RestartModeSelection(db).db,
           RestartProjectSelection(db).db, StartDraftCollecting(db).db }
    \cup { SetSessionType(db, sessionType).db : sessionType \in SessionTypes }
    \cup { SubmitRAGProjectContext(db, "found", rag).db : rag \in RagSucceeds }
    \cup { LoadSessionQuestions(db, "found", llm).db : llm \in GenerateQuestionsSucceeds }

\* the session states one front-end action other than a cancellation leads
\* to; the chat acts only on the session its chat row references
FrontEndSteps(db, linked) ==
    { [next EXCEPT !.writes = <<>>] :
        next \in HTTPSteps(db) \cup (IF linked THEN ChatSteps(db) ELSE {}) }

\* the session states front-end actions lead to from those of frontier, seen
\* being the ones found before; the search ends at a Done session
RECURSIVE Reach(_, _, _)
Reach(frontier, seen, linked) ==
    IF frontier = {} \/ \E db \in frontier : db.session.status = SessionStatusDone
    THEN seen
    ELSE LET found == UNION { FrontEndSteps(db, linked) : db \in frontier } \ seen
         IN  Reach(found, seen \cup found, linked)

\* some sequence of front-end actions other than a cancellation, with the
\* gateways succeeding, leads the session to Done
CanReachDone(db, linked) ==
    \E reached \in Reach({ db }, { db }, linked) : reached.session.status = SessionStatusDone

\* C34: an existing session in Validating or GeneratingRequirements is never
\* stuck: front-end actions other than a cancellation can lead it to Done
\* once the gateways succeed
C34_NeverStuck ==
    session.status \in { SessionStatusValidating, SessionStatusGeneratingRequirements }
        => CanReachDone(DB, tgLinked)

\* a CancelSession call of the concurrent specification has returned nil
CancelSucceeded ==
    \E t \in Tasks : /\ tasks[t].op = "CancelSession"
                     /\ tasks[t].pc = "done"
                     /\ tasks[t].err = Ok

\* C35: once CancelSession has succeeded the status stays CANCELED and no
\* result is stored: no validation, summary generation or question loading
\* that was in flight at the cancellation writes the session afterwards
C35_CanceledStays ==
    [][ (CancelSucceeded /\ session.status = SessionStatusCanceled)
            => /\ session'.status = SessionStatusCanceled
               /\ session'.result = session.result ]_vars

(***************************************************************************)
(* SpecOther: answers and skips addressed to one session (the session of   *)
(* the model, waiting for answers) while iteration_questions also holds a  *)
(* question of another session.  The request names the session and any    *)
(* question id, that of the other session's question included.            *)
(***************************************************************************)
\* the id of the other session's question (no iteration of this session is
\* numbered 0)
OtherQuestionID == <<0, 1>>

\* UPDATE iteration_questions SET answer = $2, status = 'ANSWERED' WHERE
\* id = $1, on the row of the other session
UpdateOtherQuestionAnswer(row, questionID, answer) ==
    IF questionID = OtherQuestionID
    THEN [row EXCEPT !.answer = answer, !.status = AnswerStatusAnswered]
    ELSE row

\* UPDATE iteration_questions SET status = 'SKIPED' WHERE id = $1 AND
\* status = 'UNANSWERED', on the row of the other session
SkipOtherQuestion(row, questionID) ==
    IF questionID = OtherQuestionID /\ row.status = AnswerStatusUnanswered
    THEN [row EXCEPT !.status = AnswerStatusSkiped]
    ELSE row

InitOther ==
    /\ InitAnswers

\* ids a request to the session can name
OtherRequestQuestionIDs == QuestionIDs(iterations) \cup { OtherQuestionID }

\* SubmitTextAnswer(sessionID, questionID, answer): the guard reads the
\* session named, the update takes the question by its id alone
OtherSubmitTextAnswer ==
    /\ \E questionID \in OtherRequestQuestionIDs, answer \in AnswerTexts :
            /\ Commit("SubmitTextAnswer", questionID, SubmitTextAnswer(DB, questionID, answer))
            /\ otherQuestion' = UpdateOtherQuestionAnswer(otherQuestion, questionID, answer)
    /\ UNCHANGED <<tgLinked, draftMessageCount, stateData, now, nav, callbacks, limits,
                   updates, events>>

\* SkipAnswer(sessionID, questionID)
OtherSkipAnswer ==
    /\ \E questionID \in OtherRequestQuestionIDs :
            /\ Commit("SkipAnswer", questionID, SkipAnswer(DB, questionID))
            /\ otherQuestion' = SkipOtherQuestion(otherQuestion, questionID)
    /\ UNCHANGED <<tgLinked, draftMessageCount, stateData, now, nav, callbacks, limits,
                   updates, events>>

NextOther == OtherSubmitTextAnswer \/ OtherSkipAnswer

SpecOther == InitOther /\ [][NextOther]_vars

\* C36: a submit or skip call addressed to the session never changes the
\* status or the answer of the question that belongs to the other session
C36_OtherSessionUntouched ==
    [][ otherQuestion' = otherQuestion ]_vars

\* the handler of a "continue" button stores its state data and returns
ContinueStep(t) ==
    /\ callbacks[t].pc = "handle"
    /\ callbacks[t].action = ConfirmContinue
    /\ callbacks'[t].pc = "idle"

\* the fields of the StateData the "continue" button does not change
FieldsContinueLeaves == DOMAIN InitialStateData \ { "pendingConfirmation" }

\* C37: state data updates are not lost: when the handler of "continue" is
\* the last of the user's concurrent handlers to finish, the state data it
\* stores has the confirmation cleared and keeps, in every other field, what
\* the handlers that finished before it stored
C37_BothChangesKept ==
    [][ \A t \in Tasks :
            (ContinueStep(t) /\ \A u \in Tasks \ { t } : callbacks[u].pc = "idle")
                => /\ stateData'.pendingConfirmation = Null
                   /\ \A f \in FieldsContinueLeaves : stateData'[f] = stateData[f] ]_vars

\* C38: a session whose status is Done has a stored, non-empty result text
C38_DoneHasResult ==
    session.status = SessionStatusDone => session.result # Null

\* the project description handler has set a session with a result to Done
C38_Witness ==
    /\ last.op = "ProjectDescriptionHandler"
    /\ last.before.status = SessionStatusAskProjectDescription
    /\ session.status = SessionStatusDone
    /\ session.result \in Summaries

\* a previous question recorded differs from the current question, and the
\* current question does not occur in the forward stack
HistoryApartFromCurrent(data) ==
    /\ data.previousQuestionID # NoQuestion
            => data.previousQuestionID # data.currentQuestionID
    /\ \A i \in 1..Len(data.nextQuestionIDs) :
            data.nextQuestionIDs[i] # data.currentQuestionID

\* C39: in every state data reached, a previous question recorded differs
\* from the current question and the current question does not occur in the
\* forward stack; the same holds of the state data that the skip button of
\* any question shown earlier leaves when it is pressed now
C39_HistoryApartFromCurrent ==
    /\ HistoryApartFromCurrent(stateData)
    /\ tgLinked =>
            \A questionID \in QuestionIDs(iterations), validate \in ValidateResponses,
               summary \in SummaryResponses :
                HistoryApartFromCurrent(
                    handleSkipQuestion(DB, stateData, questionID, validate, summary).data)

\* C40: whenever the replay flag is set, the index lies inside the snapshot,
\* the position is the index plus one and at most the total, and the
\* current question is the snapshot entry at the index
C40_ReplayStateConsistent ==
    stateData.answeringSkipped =>
        /\ 0 <= stateData.currentSkippedQuestionIndex
        /\ stateData.currentSkippedQuestionIndex < Len(stateData.skippedQuestionIDs)
        /\ stateData.currentSkippedQuestionNumber = stateData.currentSkippedQuestionIndex + 1
        /\ stateData.currentSkippedQuestionNumber <= stateData.totalSkippedQuestions
        /\ stateData.currentQuestionID
                = stateData.skippedQuestionIDs[stateData.currentSkippedQuestionIndex + 1]

\* in a replay of at least two questions the user has gone on to the second
\* entry and back to the first
C40_Witness ==
    /\ tgLinked
    /\ stateData.answeringSkipped
    /\ nav.op = "handlePreviousQuestion"
    /\ nav.err = Ok
    /\ Len(stateData.skippedQuestionIDs) >= 2
    /\ stateData.currentSkippedQuestionIndex = 0
    /\ stateData.currentSkippedQuestionNumber = 1
    /\ stateData.currentQuestionID = stateData.skippedQuestionIDs[1]
    /\ Len(stateData.nextQuestionIDs) = 1

====
